---- MODULE Spec2Model ----
(***************************************************************************)
(* Memory orchestration subsystem of the Axon server: the process-wide     *)
(* Arweave configuration (EizenService), the embedding engine              *)
(* (EmbeddingService), the per-contract vector store (EizenService), the   *)
(* memory service (MemoryService), the quota middleware and the            *)
(* POST /memories/insert route.                                            *)
(*                                                                         *)
(* The server is single-threaded and cooperative: code between two awaits  *)
(* runs atomically, so each action is one synchronous segment of a handler *)
(* (from the resumption of an await to the next await or to the return).   *)
(***************************************************************************)
EXTENDS Integers, Sequences, FiniteSets, TLC

\* ------------------------------------------------------------------ bounds
NumProcs == 3                 \* callers of the services' own entry points
NumReqs == 2                  \* HTTP requests
QuotaLimit == 2               \* quotaLimit of the subscriptions

Procs == 1..NumProcs
Reqs == 1..NumReqs
AllProcs == Procs \cup Reqs

\* ------------------------------------------------------- program constants
NULL == 0

\* createMemorySchema: content is a string of 1 to 10000 characters
MaxContentLength == 10000

\* ------------------------------------------------------------------- data
\* A text is its characters and its length.
ContentA == [text |-> "User prefers dark mode", length |-> 22]
ContentB == [text |-> "User lives in Paris", length |-> 19]
Undefined == [text |-> "undefined", length |-> -1]

\* Metadata is a mapping from keys to values.  An absent metadata object
\* spreads to nothing, as the empty mapping does.
NoMetadata == [k \in {} |-> 0]
CallerMetadata == [importance |-> 7, client |-> "unknown", content |-> ContentA]

\* the request bodies of POST /memories/insert
Bodies == { [content |-> ContentA, metadata |-> NoMetadata],
            [content |-> ContentB, metadata |-> CallerMetadata],
            [content |-> [text |-> "", length |-> 0], metadata |-> NoMetadata] }

Users == {"u1", "u2"}

Contracts == {"c1", "c2"}

\* the ids of the documents of the instances collection
InstanceIds == {"i1", "i2"}

\* no document: getDocument() found nothing, or the handler has not read one
NoInstance == [exists |-> FALSE, userId |-> "none", contractId |-> "none",
               isActive |-> FALSE, createdAt |-> 0]

\* the instances collection at the start: each user owns one instance
InitInstances ==
    [i \in InstanceIds |->
        IF i = "i1"
        THEN [exists |-> TRUE, userId |-> "u1", contractId |-> "c1",
              isActive |-> FALSE, createdAt |-> 1]
        ELSE [exists |-> TRUE, userId |-> "u2", contractId |-> "c2",
              isActive |-> FALSE, createdAt |-> 2]]

\* a subscription document; exists = FALSE stands for no document
NoSubscription == [exists |-> FALSE, isActive |-> FALSE, quotaUsed |-> 0, quotaLimit |-> 0]
Subscription(active, used) ==
    [exists |-> TRUE, isActive |-> active, quotaUsed |-> used, quotaLimit |-> QuotaLimit]


VARIABLES
    \* the environment
    nodeEnv,               \* process.env.NODE_ENV
    walletBalance,         \* balance of the server's wallet, in winston
    deployed,              \* the contracts provisioned so far, in order: how each was deployed
    instancesCollection,   \* the Appwrite instances collection: the document of each id
    \* EizenService statics
    sharedArweaveConfig,   \* NULL or the config object (identified by a number)
    arweaveInitPromise,    \* NULL or the index of a promise in arweavePromises
    arweavePromises,       \* the promises returned by getArweaveConfig(), in call order
    \* the EmbeddingService singleton
    extractor,             \* FALSE for null, TRUE once the pipeline is loaded
    embeddingInitialized,  \* EmbeddingService.isInitialized
    initializationPromise, \* NULL or the index of a promise in initPromises
    initPromises,          \* the promises returned by initialize(), in call order
    \* the vector indexes, which live in the contracts
    db,                    \* per contract: the metadata of the stored vectors, by id
    \* the EizenService instances, one per caller that constructed one
    svc,
    \* the Appwrite subscriptions collection
    subscriptions,         \* per user: the subscription document, if any
    \* the callers
    pc,                    \* where each caller is suspended
    op,                    \* what each caller is executing
    loc,                   \* the caller's local variables
    resp                   \* what the caller got back

envVars == <<nodeEnv, walletBalance, deployed, instancesCollection>>
cfgVars == <<sharedArweaveConfig, arweaveInitPromise, arweavePromises>>
embVars == <<extractor, embeddingInitialized, initializationPromise, initPromises>>
dataVars == <<db, svc, subscriptions>>
procVars == <<pc, op, loc, resp>>
vars == <<envVars, cfgVars, embVars, dataVars, procVars>>

\* ------------------------------------------------------------------ locals
InitLoc == [arweavePromise |-> NULL, arweaveConfig |-> NULL, contractTxId |-> NULL,
            initPromise |-> NULL, initOwner |-> FALSE,
            user |-> "none", body |-> [content |-> Undefined, metadata |-> NoMetadata],
            subscription |-> NoSubscription, vectorId |-> -1, quotaUsed |-> -1,
            result |-> -1, quotaUpdated |-> FALSE,
            k |-> 0, filters |-> NoMetadata, searchResults |-> <<>>, memories |-> <<>>,
            initializing |-> FALSE, memoryId |-> -1,
            instanceId |-> "none", instance |-> NoInstance,
            checks |-> [api |-> "none", appwrite |-> "none", timestamp |-> "none"],
            texts |-> 0, response |-> [dims |-> <<>>, data |-> <<>>], embeddings |-> <<>>,
            stats |-> [totalMemories |-> -1, embeddingService |-> "none",
                       isInitialized |-> FALSE]]
InitResp == [result |-> "none", status |-> 0, memoryId |-> -1, message |-> "none"]
NoService == [contractId |-> "none", isInitialized |-> FALSE, vectorDb |-> FALSE,
              sdk |-> FALSE]

MaxBalance == 1

InitCommon ==
    /\ deployed = <<>>
    /\ instancesCollection = InitInstances
    /\ sharedArweaveConfig = NULL
    /\ arweaveInitPromise = NULL
    /\ arweavePromises = <<>>
    /\ extractor = FALSE
    /\ embeddingInitialized = FALSE
    /\ initializationPromise = NULL
    /\ initPromises = <<>>
    /\ db = [c \in Contracts |-> <<>>]
    /\ svc = [p \in AllProcs |-> NoService]
    /\ pc = [p \in AllProcs |-> "idle"]
    /\ op = [p \in AllProcs |-> "none"]
    /\ loc = [p \in AllProcs |-> InitLoc]
    /\ resp = [p \in AllProcs |-> InitResp]

\* u1 has an active subscription with room for one more memory; u2 has no
\* subscription, or an inactive one, below or at its limit
InitialQuotaUsed == QuotaLimit - 1

Init ==
    /\ nodeEnv = "development"
    /\ walletBalance = 1
    /\ \E s2 \in {NoSubscription, Subscription(FALSE, 0), Subscription(FALSE, QuotaLimit)} :
            subscriptions = [u \in Users |->
                IF u = "u1" THEN Subscription(TRUE, InitialQuotaUsed) ELSE s2]
    /\ InitCommon

\* the deployments run in either environment, with or without funds
ConfigInit ==
    /\ nodeEnv \in {"production", "development"}
    /\ walletBalance \in 0..MaxBalance
    /\ subscriptions = [u \in Users |-> Subscription(TRUE, 0)]
    /\ InitCommon

\* the embedding engine on its own
EmbedInit ==
    /\ nodeEnv = "development"
    /\ walletBalance = 1
    /\ subscriptions = [u \in Users |-> Subscription(TRUE, 0)]
    /\ InitCommon

\* ==================================================== shared Arweave config

\* number of invocations of getArweaveConfig()
GetArweaveConfigCalls == Len(arweavePromises)

\* a getSharedArweaveConfig() that forgets the in-flight promise
MustStartArweaveInitAlways == TRUE

\* line 199: does the caller have to start getArweaveConfig()?
MustStartArweaveInit == arweaveInitPromise = NULL

\* The synchronous prefix of getSharedArweaveConfig(), up to its await (or to
\* its return when the config is cached): what it does to the statics ...
GetSharedArweaveConfigCall ==
    IF sharedArweaveConfig = NULL /\ MustStartArweaveInit
    THEN /\ arweavePromises' =
                Append(arweavePromises, [state |-> "pending", value |-> NULL])
         /\ arweaveInitPromise' = Len(arweavePromises) + 1
    ELSE UNCHANGED <<arweaveInitPromise, arweavePromises>>

\* ... and what the caller is left with: the cached config, or the promise it
\* awaits at line 203
ArweaveCallLocal(l) ==
    [l EXCEPT !.arweaveConfig = sharedArweaveConfig,
              !.arweavePromise =
                    IF sharedArweaveConfig # NULL THEN NULL
                    ELSE IF MustStartArweaveInit THEN Len(arweavePromises) + 1
                    ELSE arweaveInitPromise]

\* getArweaveConfig() settles: it yields a new config object, or it rejects.
GetArweaveConfigSettle(i, ok) ==
    /\ i \in 1..Len(arweavePromises)
    /\ arweavePromises[i].state = "pending"
    /\ arweavePromises' = [arweavePromises EXCEPT
            ![i] = IF ok THEN [state |-> "fulfilled", value |-> i]
                         ELSE [state |-> "rejected", value |-> NULL]]
    /\ UNCHANGED <<sharedArweaveConfig, arweaveInitPromise, procVars, envVars, embVars, dataVars>>

\* Is the await of a caller in getSharedArweaveConfig() ready to resume?
ArweaveAwaitReady(l) ==
    IF l.arweavePromise = NULL THEN TRUE
    ELSE arweavePromises[l.arweavePromise].state # "pending"

ArweaveAwaitRejected(l) ==
    IF l.arweavePromise = NULL THEN FALSE
    ELSE arweavePromises[l.arweavePromise].state = "rejected"

\* the config the resumed caller gets
ArweaveAwaitValue(l) ==
    IF l.arweavePromise = NULL THEN l.arweaveConfig
    ELSE arweavePromises[l.arweavePromise].value

\* lines 203-204, run by a resumed caller whose await did not throw
GetSharedArweaveConfigResume(l) ==
    sharedArweaveConfig' =
        IF l.arweavePromise = NULL THEN sharedArweaveConfig ELSE ArweaveAwaitValue(l)

ArweaveResumeLocal(l) == [l EXCEPT !.arweaveConfig = ArweaveAwaitValue(l)]

\* ---------------------------------------------------------------- results
\* A caller of a service method gets a result or an error; an HTTP request
\* gets a status.  The route handler answers 500 to whatever its try block
\* throws (memories.ts, lines 113-122).
Return(p, memoryId) ==
    resp' = [resp EXCEPT ![p] = [result |-> "ok", status |-> 0,
                                 memoryId |-> memoryId, message |-> "none"]]

Throw(p, message) ==
    resp' = [resp EXCEPT ![p] = [result |-> "error",
                                 status |-> IF op[p] = "insert" THEN 500 ELSE 0,
                                 memoryId |-> -1, message |-> message]]

Respond(p, status, message, memoryId) ==
    resp' = [resp EXCEPT ![p] = [result |-> IF status < 400 THEN "ok" ELSE "error",
                                 status |-> status,
                                 memoryId |-> memoryId, message |-> message]]

\* ------------------------------------------------ EizenService.forContract
\* the constructor: nothing is attached yet
NewService(c) == [contractId |-> c, isInitialized |-> FALSE, vectorDb |-> FALSE,
                  sdk |-> FALSE]

\* initialize(), lines 221-227: the SDK and the index are attached
InitializedService(s) == [s EXCEPT !.sdk = TRUE, !.vectorDb = TRUE, !.isInitialized = TRUE]

ForContractCall(p, c) ==
    /\ pc[p] = "idle"
    /\ svc' = [svc EXCEPT ![p] = NewService(c)]
    /\ GetSharedArweaveConfigCall
    /\ loc' = [loc EXCEPT ![p] = ArweaveCallLocal(loc[p])]
    /\ pc' = [pc EXCEPT ![p] = "fc_config"]
    /\ op' = [op EXCEPT ![p] = "forContract"]
    /\ UNCHANGED <<sharedArweaveConfig, resp, envVars, embVars, db, subscriptions>>

\* initialize() resumes with the config, or re-throws the rejection
ForContractResume(p) ==
    /\ pc[p] = "fc_config"
    /\ op[p] = "forContract"
    /\ ArweaveAwaitReady(loc[p])
    /\ IF ArweaveAwaitRejected(loc[p])
       THEN /\ Throw(p, "config")
            /\ UNCHANGED <<sharedArweaveConfig, loc, svc>>
       ELSE /\ GetSharedArweaveConfigResume(loc[p])
            /\ loc' = [loc EXCEPT ![p] = ArweaveResumeLocal(loc[p])]
            /\ svc' = [svc EXCEPT ![p] = InitializedService(svc[p])]
            /\ Return(p, -1)
    /\ pc' = [pc EXCEPT ![p] = "done"]
    /\ UNCHANGED <<arweaveInitPromise, arweavePromises, op, envVars, embVars, db, subscriptions>>

\* -------------------------------------------- EizenService.deployNewContract
\* line 112: the config is awaited outside the try block
DeployCall(p) ==
    /\ pc[p] = "idle"
    /\ GetSharedArweaveConfigCall
    /\ loc' = [loc EXCEPT ![p] = ArweaveCallLocal(loc[p])]
    /\ pc' = [pc EXCEPT ![p] = "dep_config"]
    /\ op' = [op EXCEPT ![p] = "deploy"]
    /\ UNCHANGED <<sharedArweaveConfig, resp, envVars, embVars, dataVars>>

\* the config arrives (or its rejection is re-thrown as it is); then
\* wallets.getAddress() is awaited
DeployResume(p) ==
    /\ pc[p] = "dep_config"
    /\ ArweaveAwaitReady(loc[p])
    /\ IF ArweaveAwaitRejected(loc[p])
       THEN /\ Throw(p, "config")
            /\ pc' = [pc EXCEPT ![p] = "done"]
            /\ UNCHANGED <<sharedArweaveConfig, loc>>
       ELSE /\ GetSharedArweaveConfigResume(loc[p])
            /\ loc' = [loc EXCEPT ![p] = ArweaveResumeLocal(loc[p])]
            /\ pc' = [pc EXCEPT ![p] = "dep_address"]
            /\ UNCHANGED resp
    /\ UNCHANGED <<arweaveInitPromise, arweavePromises, op, envVars, embVars, dataVars>>

\* lines 186-191: every failure inside the try block is logged and wrapped
DeployFail(p, msg) ==
    /\ Throw(p, msg)
    /\ pc' = [pc EXCEPT ![p] = "done"]

\* wallets.getAddress() returned; wallets.getBalance() is awaited
DeployAddress(p, ok) ==
    /\ pc[p] = "dep_address"
    /\ IF ok THEN pc' = [pc EXCEPT ![p] = "dep_balance"] /\ UNCHANGED resp
             ELSE DeployFail(p, "Failed to deploy contract: address")
    /\ UNCHANGED <<cfgVars, op, loc, envVars, embVars, dataVars>>

\* a balance check that lets an empty wallet through
InsufficientBalanceNegativeOnly(balance) == balance < 0

\* lines 127-138: parseFloat(readableBalance) <= 0
InsufficientBalance(balance) == balance <= 0

InsufficientBalanceMessage(env) ==
    IF env # "production"
    THEN "Failed to deploy contract: Insufficient wallet balance. Dev tip"
    ELSE "Failed to deploy contract: Insufficient wallet balance for deployment."

\* wallets.getBalance() returned; the balance is checked and the contract is
\* deployed with EizenDbVector.deploy() or warp.deploy()
DeployBalance(p, ok) ==
    /\ pc[p] = "dep_balance"
    /\ IF ~ok THEN DeployFail(p, "Failed to deploy contract: balance")
       ELSE IF InsufficientBalance(walletBalance)
       THEN DeployFail(p, InsufficientBalanceMessage(nodeEnv))
       ELSE pc' = [pc EXCEPT ![p] = "dep_deploy"] /\ UNCHANGED resp
    /\ UNCHANGED <<cfgVars, op, loc, envVars, embVars, dataVars>>

\* the deployment returned its contractTxId; the balance is read again
DeployProvision(p, ok) ==
    /\ pc[p] = "dep_deploy"
    /\ IF ok
       THEN /\ deployed' = Append(deployed,
                    IF nodeEnv = "production" THEN "EizenDbVector.deploy" ELSE "warp.deploy")
            /\ loc' = [loc EXCEPT ![p].contractTxId = Len(deployed) + 1]
            /\ pc' = [pc EXCEPT ![p] = "dep_balance2"]
            /\ UNCHANGED resp
       ELSE /\ DeployFail(p, "Failed to deploy contract: deploy")
            /\ UNCHANGED <<deployed, loc>>
    /\ UNCHANGED <<cfgVars, op, nodeEnv, walletBalance, instancesCollection, embVars, dataVars>>

\* the second wallets.getBalance() returned; the result is returned
DeployReturn(p, ok) ==
    /\ pc[p] = "dep_balance2"
    /\ IF ok
       THEN /\ Return(p, -1)
            /\ pc' = [pc EXCEPT ![p] = "done"]
       ELSE DeployFail(p, "Failed to deploy contract: balance")
    /\ UNCHANGED <<cfgVars, op, loc, envVars, embVars, dataVars>>

ConfigNext ==
    \/ \E p \in Procs : ForContractCall(p, IF p % 2 = 1 THEN "c1" ELSE "c2")
    \/ \E p \in Procs : ForContractResume(p)
    \/ \E p \in Procs : DeployCall(p)
    \/ \E p \in Procs : DeployResume(p)
    \/ \E p \in Procs, ok \in BOOLEAN : DeployAddress(p, ok)
    \/ \E p \in Procs, ok \in BOOLEAN : DeployBalance(p, ok)
    \/ \E p \in Procs, ok \in BOOLEAN : DeployProvision(p, ok)
    \/ \E p \in Procs, ok \in BOOLEAN : DeployReturn(p, ok)
    \/ \E i \in 1..NumProcs, ok \in BOOLEAN : GetArweaveConfigSettle(i, ok)

ConfigSpec == ConfigInit /\ [][ConfigNext]_vars

\* ========================================================= EmbeddingService

\* number of model loads started (calls of initialize(), hence of pipeline())
PipelineCalls == Len(initPromises)

\* an ensureInitialized() that does not look at the in-flight promise
JoinsInFlightInitNever == FALSE

\* lines 57-60: is there an in-flight initialization to wait on?
JoinsInFlightInit == initializationPromise # NULL

\* an ensureInitialized() that clears the memoized promise only on success
PromiseAfterOwnAwaitKeepFailed(rejected) ==
    IF rejected THEN initializationPromise ELSE NULL

\* lines 64-68: the finally block of the caller that started the load
PromiseAfterOwnAwait(rejected) == NULL

\* line 53
EngineReady == embeddingInitialized /\ extractor

\* The synchronous prefix of ensureInitialized(): up to the return of line 54
\* or to one of the awaits of lines 58 and 65.  The call of initialize() runs
\* up to its await of pipeline().  What it does to the engine ...
EnsureInitializedCall ==
    IF ~EngineReady /\ ~JoinsInFlightInit
    THEN /\ initPromises' = Append(initPromises, "pending")
         /\ initializationPromise' = Len(initPromises) + 1
    ELSE UNCHANGED <<initializationPromise, initPromises>>

\* ... and the promise the caller awaits (none when the engine is ready)
EnsureInitializedLocal(l) ==
    [l EXCEPT !.initPromise = IF EngineReady THEN NULL
                              ELSE IF JoinsInFlightInit THEN initializationPromise
                              ELSE Len(initPromises) + 1,
              !.initOwner = ~EngineReady /\ ~JoinsInFlightInit]

\* pipeline() settles and initialize() runs to its end (lines 39-49)
PipelineSettle(i, ok) ==
    /\ i \in 1..Len(initPromises)
    /\ initPromises[i] = "pending"
    /\ IF ok
       THEN /\ extractor' = TRUE
            /\ embeddingInitialized' = TRUE
            /\ initPromises' = [initPromises EXCEPT ![i] = "fulfilled"]
       ELSE /\ initPromises' = [initPromises EXCEPT ![i] = "rejected"]
            /\ UNCHANGED <<extractor, embeddingInitialized>>
    /\ UNCHANGED <<initializationPromise, procVars, envVars, cfgVars, dataVars>>

InitAwaitReady(l) ==
    IF l.initPromise = NULL THEN TRUE
    ELSE initPromises[l.initPromise] # "pending"

InitAwaitRejected(l) ==
    IF l.initPromise = NULL THEN FALSE
    ELSE initPromises[l.initPromise] = "rejected"

\* Does ensureInitialized() throw when the caller resumes?  Lines 58 and 65
\* re-throw the rejection; line 70 checks the extractor for the caller that
\* started the load.
EnsureInitializedThrows(l) ==
    \/ InitAwaitRejected(l)
    \/ l.initOwner /\ ~extractor

\* the memoized promise after the caller has resumed in ensureInitialized()
EnsureInitializedResume(l) ==
    initializationPromise' =
        IF l.initOwner THEN PromiseAfterOwnAwait(InitAwaitRejected(l))
        ELSE initializationPromise

\* --------------------------------- callers of the embedding service itself
EnsureInitializedStart(p) ==
    /\ pc[p] = "idle"
    /\ EnsureInitializedCall
    /\ loc' = [loc EXCEPT ![p] = EnsureInitializedLocal(loc[p])]
    /\ pc' = [pc EXCEPT ![p] = "emb_init"]
    /\ op' = [op EXCEPT ![p] = "ensureInitialized"]
    /\ UNCHANGED <<extractor, embeddingInitialized, resp, envVars, cfgVars, dataVars>>

TextToEmbeddingsStart(p) ==
    /\ pc[p] = "idle"
    /\ EnsureInitializedCall
    /\ loc' = [loc EXCEPT ![p] = EnsureInitializedLocal(loc[p])]
    /\ pc' = [pc EXCEPT ![p] = "emb_init"]
    /\ op' = [op EXCEPT ![p] = "textToEmbeddings"]
    /\ UNCHANGED <<extractor, embeddingInitialized, resp, envVars, cfgVars, dataVars>>

\* ensureInitialized() returns to (or throws into) its caller.  In
\* textToEmbeddings() the extractor is then checked (line 81) and called.
EnsureInitializedReturn(p) ==
    /\ pc[p] = "emb_init"
    /\ op[p] \in {"ensureInitialized", "textToEmbeddings"}
    /\ InitAwaitReady(loc[p])
    /\ EnsureInitializedResume(loc[p])
    /\ IF EnsureInitializedThrows(loc[p])
       THEN /\ Throw(p, "Failed to initialize")
            /\ pc' = [pc EXCEPT ![p] = "done"]
       ELSE IF op[p] = "ensureInitialized"
       THEN /\ Return(p, -1)
            /\ pc' = [pc EXCEPT ![p] = "done"]
       ELSE IF ~extractor
       THEN /\ Throw(p, "Extractor not initialized")
            /\ pc' = [pc EXCEPT ![p] = "done"]
       ELSE /\ pc' = [pc EXCEPT ![p] = "emb_extract"]
            /\ UNCHANGED resp
    /\ UNCHANGED <<extractor, embeddingInitialized, initPromises, op, loc, envVars, cfgVars, dataVars>>

\* the extractor returns (or throws) and textToEmbeddings() returns
TextToEmbeddingsReturn(p, ok) ==
    /\ pc[p] = "emb_extract"
    /\ op[p] = "textToEmbeddings"
    /\ IF ok THEN Return(p, -1) ELSE Throw(p, "Failed to generate embeddings")
    /\ pc' = [pc EXCEPT ![p] = "done"]
    /\ UNCHANGED <<embVars, op, loc, envVars, cfgVars, dataVars>>

EmbedNext ==
    \/ \E p \in Procs : EnsureInitializedStart(p)
    \/ \E p \in Procs : TextToEmbeddingsStart(p)
    \/ \E p \in Procs : EnsureInitializedReturn(p)
    \/ \E p \in Procs, ok \in BOOLEAN : TextToEmbeddingsReturn(p, ok)
    \/ \E i \in 1..NumProcs, ok \in BOOLEAN : PipelineSettle(i, ok)

EmbedSpec == EmbedInit /\ [][EmbedNext]_vars

\* ============================================================ vector store

\* vectorDb.db.get_datasize()
DataSize(c) == Len(db[c])

\* an insert through one index handle that all services share
IndexInsertShared(c, metadata) == db' = [db EXCEPT !["c1"] = Append(db["c1"], metadata)]

\* vectorDb.insert(): the index gives the vector the next id
IndexInsert(c, metadata) == db' = [db EXCEPT ![c] = Append(db[c], metadata)]

\* EizenService.getVector(): null for an id the index does not hold
GetVector(c, id) ==
    IF id \in 0..(Len(db[c]) - 1)
    THEN [found |-> TRUE, metadata |-> db[c][id + 1]]
    ELSE [found |-> FALSE, metadata |-> NoMetadata]

\* ============================================================ MemoryService

\* a merge that spreads the caller's metadata last, so that its content wins
EnhancedMetadataCallerLast(data) ==
    [k \in (DOMAIN data.metadata) \cup {"content"} |->
        IF k \in DOMAIN data.metadata THEN data.metadata[k] ELSE data.content]

\* createMemory(), lines 53-56: the caller's metadata with the content forced
EnhancedMetadata(data) ==
    [k \in (DOMAIN data.metadata) \cup {"content"} |->
        IF k = "content" THEN data.content ELSE data.metadata[k]]

\* `${prefix}: ${error.message}`: an error that wraps its cause
ErrorMessage(prefix, cause) == prefix \o ": " \o cause

\* a createMemory() that throws a fixed message and drops its cause
CreateMemoryErrorBare(cause) == "Failed to create memory"

\* createMemory(), lines 71-75
CreateMemoryError(cause) == ErrorMessage("Failed to create memory", cause)

\* MemoryService.textToEmbeddings(), lines 175-179, and
\* EmbeddingService.textToEmbeddings(), lines 102-107
GenerateEmbeddingsError(cause) == ErrorMessage("Failed to generate embeddings", cause)

\* insertVector(), lines 271-276
InsertVectorError(cause) == ErrorMessage("Failed to insert vector", cause)

\* what embeddingService.textToEmbeddings() throws before it calls the
\* extractor: the rejection of the load, or the check of line 70 or line 81
EnsureInitializedCause(l) ==
    IF InitAwaitRejected(l) THEN "pipeline failed"
    ELSE IF l.initOwner /\ ~extractor THEN "EmbeddingService is not properly initialized"
    ELSE "Extractor not initialized"

\* Array.from(response.data): a copy of the buffer, element by element
ArrayFrom(data) == [i \in 1..Len(data) |-> data[i]]

\* textToEmbeddings(), lines 93-101: the whole buffer is the embedding
TextEmbedding(data) == [embeddings |-> ArrayFrom(data), dimensions |-> Len(ArrayFrom(data))]


\* (metadata?.content as string) || undefined
ContentOf(metadata) ==
    IF "content" \in DOMAIN metadata /\ metadata["content"].length > 0
    THEN metadata["content"] ELSE Undefined

\* getMemory(): null when the store has no such vector
GetMemory(c, memoryId) ==
    LET vector == GetVector(c, memoryId) IN
    IF ~vector.found
    THEN [found |-> FALSE, id |-> memoryId, content |-> Undefined, metadata |-> NoMetadata]
    ELSE [found |-> TRUE, id |-> memoryId, content |-> ContentOf(vector.metadata),
          metadata |-> vector.metadata]

\* insertVector() reads the count and keeps it as the id it returns
AssignedIdAfterInsert(countBefore, countAfter) == countAfter

\* insertVector(), lines 261-269: the id returned is the count read at line 261
AssignedId(countBefore, countAfter) == countBefore

\* ========================================================= quota middleware

\* a gate that compares the quota before it looks at isActive
QuotaGateQuotaFirst(subscription) ==
    IF ~subscription.exists THEN 403
    ELSE IF subscription.quotaUsed >= subscription.quotaLimit THEN 429
    ELSE IF ~subscription.isActive THEN 403
    ELSE 0

\* quotaMiddleware, lines 25-37: the status of the HTTPException thrown, or 0
\* when the request may proceed
QuotaGate(subscription) ==
    IF ~subscription.exists THEN 403
    ELSE IF ~subscription.isActive THEN 403
    ELSE IF subscription.quotaUsed >= subscription.quotaLimit THEN 429
    ELSE 0

\* a schema that takes the maximum as exclusive
ValidBodyBelowMax(body) ==
    body.content.length >= 1 /\ body.content.length < MaxContentLength

\* createMemorySchema: z.string().min(1).max(10000)
ValidBody(body) ==
    body.content.length >= 1 /\ body.content.length <= MaxContentLength

\* a listing that leaves out the filter on userId
UserInstancesOfAnyone(u) ==
    LET ids == {i \in InstanceIds : instancesCollection[i].exists}
        order == CHOOSE s \in [1..Cardinality(ids) -> ids] :
                    \A j, k \in 1..Cardinality(ids) :
                        j < k => instancesCollection[s[j]].createdAt > instancesCollection[s[k]].createdAt
    IN [j \in 1..Cardinality(ids) |-> instancesCollection[order[j]]]

\* listUserInstances(), part_005 lines 206-212: the documents with
\* userId = u, most recent first
UserInstances(u) ==
    LET ids == {i \in InstanceIds : instancesCollection[i].exists /\ instancesCollection[i].userId = u}
        order == CHOOSE s \in [1..Cardinality(ids) -> ids] :
                    \A j, k \in 1..Cardinality(ids) :
                        j < k => instancesCollection[s[j]].createdAt > instancesCollection[s[k]].createdAt
    IN [j \in 1..Cardinality(ids) |-> instancesCollection[order[j]]]

\* getUserMemoryService(), lines 50-60: the first active instance, or else the
\* first one; "none" when there is no usable instance
SelectContract(instances) ==
    IF Len(instances) = 0 THEN "none"
    ELSE LET active == {i \in 1..Len(instances) : instances[i].isActive} IN
         IF active # {}
         THEN instances[CHOOSE i \in active : \A j \in active : i <= j].contractId
         ELSE instances[1].contractId

\* ================================================== POST /memories/insert
Finish(r, status, message, memoryId) ==
    /\ Respond(r, status, message, memoryId)
    /\ pc' = [pc EXCEPT ![r] = "done"]

\* The request arrives with a session cookie; authMiddleware awaits
\* account.get().
InsertRequest(r, u, body) ==
    /\ pc[r] = "idle"
    /\ pc' = [pc EXCEPT ![r] = "auth"]
    /\ op' = [op EXCEPT ![r] = "insert"]
    /\ loc' = [loc EXCEPT ![r].user = u, ![r].body = body]
    /\ UNCHANGED <<resp, envVars, cfgVars, embVars, dataVars>>

\* authMiddleware resumes: 401 for an invalid session; otherwise the user is
\* set and quotaMiddleware awaits getUserSubscription().
AuthResume(r, ok) ==
    /\ pc[r] = "auth"
    /\ IF ok THEN pc' = [pc EXCEPT ![r] = "gate_sub"] /\ UNCHANGED resp
             ELSE Finish(r, 401, "Invalid or expired session token", -1)
    /\ UNCHANGED <<op, loc, envVars, cfgVars, embVars, dataVars>>

\* quotaMiddleware resumes with the subscription (or the lookup failed) and
\* decides.  When it lets the request through, the body is validated and the
\* handler runs up to the await of listUserInstances().
GateResume(r, ok) ==
    /\ pc[r] = "gate_sub"
    /\ LET subscription == subscriptions[loc[r].user] IN
       IF ~ok
       THEN Finish(r, 500, "Failed to check quota", -1) /\ UNCHANGED loc
       ELSE IF QuotaGate(subscription) # 0
       THEN Finish(r, QuotaGate(subscription), "quota", -1) /\ UNCHANGED loc
       ELSE /\ loc' = [loc EXCEPT ![r].subscription = subscription]
            /\ IF ~ValidBody(loc[r].body)
               THEN Finish(r, 400, "Validation failed", -1)
               ELSE pc' = [pc EXCEPT ![r] = "svc_instances"] /\ UNCHANGED resp
    /\ UNCHANGED <<op, envVars, cfgVars, embVars, dataVars>>

\* getUserMemoryService() resumes with the user's instances and calls
\* EizenService.forContract(), which runs up to the await of the shared config.
InstancesResume(r, ok) ==
    /\ pc[r] = "svc_instances"
    /\ LET contractId == SelectContract(UserInstances(loc[r].user)) IN
       IF ~ok \/ contractId = "none"
       THEN /\ Finish(r, 500, "Memory service not available", -1)
            /\ UNCHANGED <<loc, svc, cfgVars>>
       ELSE /\ svc' = [svc EXCEPT ![r] = NewService(contractId)]
            /\ GetSharedArweaveConfigCall
            /\ loc' = [loc EXCEPT ![r] = ArweaveCallLocal(loc[r])]
            /\ pc' = [pc EXCEPT ![r] = "svc_config"]
            /\ UNCHANGED <<resp, sharedArweaveConfig>>
    /\ UNCHANGED <<op, envVars, embVars, db, subscriptions>>

\* forContract() resumes: the service is initialized and createMemory() runs
\* up to the await in embeddingService.ensureInitialized().
ServiceResume(r) ==
    /\ pc[r] = "svc_config"
    /\ ArweaveAwaitReady(loc[r])
    /\ IF ArweaveAwaitRejected(loc[r])
       THEN /\ Finish(r, 500, "Memory service not available", -1)
            /\ UNCHANGED <<loc, svc, sharedArweaveConfig, initializationPromise, initPromises>>
       ELSE /\ GetSharedArweaveConfigResume(loc[r])
            /\ svc' = [svc EXCEPT ![r] = InitializedService(svc[r])]
            /\ EnsureInitializedCall
            /\ loc' = [loc EXCEPT ![r] = EnsureInitializedLocal(
                            [ArweaveResumeLocal(loc[r]) EXCEPT !.arweavePromise = NULL])]
            /\ pc' = [pc EXCEPT ![r] = "emb_init"]
            /\ UNCHANGED resp
    /\ UNCHANGED <<op, envVars, arweaveInitPromise, arweavePromises,
                   extractor, embeddingInitialized, db, subscriptions>>

\* embeddingService.ensureInitialized() resumes; textToEmbeddings() checks the
\* extractor (line 81) and calls it.
CreateMemoryEmbed(r) ==
    /\ pc[r] = "emb_init"
    /\ op[r] = "insert"
    /\ InitAwaitReady(loc[r])
    /\ EnsureInitializedResume(loc[r])
    /\ IF EnsureInitializedThrows(loc[r]) \/ ~extractor
       THEN /\ Throw(r, CreateMemoryError(
                        GenerateEmbeddingsError(EnsureInitializedCause(loc[r]))))
            /\ pc' = [pc EXCEPT ![r] = "done"]
       ELSE /\ pc' = [pc EXCEPT ![r] = "emb_extract"]
            /\ UNCHANGED resp
    /\ loc' = [loc EXCEPT ![r].initPromise = NULL, ![r].initOwner = FALSE]
    /\ UNCHANGED <<extractor, embeddingInitialized, initPromises, op, envVars, cfgVars, dataVars>>

\* The extractor returns the embedding (or throws); createMemory() merges the
\* metadata and insertVector() runs up to the await of get_datasize().  The
\* service was initialized by forContract().
EmbeddingResume(r, ok) ==
    /\ pc[r] = "emb_extract"
    /\ op[r] = "insert"
    /\ IF ~ok
       THEN /\ Throw(r, CreateMemoryError(GenerateEmbeddingsError(
                        GenerateEmbeddingsError("extractor failed"))))
            /\ pc' = [pc EXCEPT ![r] = "done"]
            /\ UNCHANGED loc
       ELSE /\ loc' = [loc EXCEPT ![r].embeddings = TextEmbedding(<<1>>).embeddings]
            /\ IF svc[r].isInitialized /\ svc[r].vectorDb
               THEN pc' = [pc EXCEPT ![r] = "ins_count"] /\ UNCHANGED resp
               ELSE /\ Throw(r, CreateMemoryError("Vector database not initialized"))
                    /\ pc' = [pc EXCEPT ![r] = "done"]
    /\ UNCHANGED <<op, envVars, cfgVars, embVars, dataVars>>

\* get_datasize() returns the count; vectorDb.insert() is awaited
CountResume(r, ok) ==
    /\ pc[r] = "ins_count"
    /\ IF ok
       THEN /\ loc' = [loc EXCEPT ![r].vectorId = DataSize(svc[r].contractId)]
            /\ pc' = [pc EXCEPT ![r] = "ins_insert"]
            /\ UNCHANGED resp
       ELSE /\ Throw(r, CreateMemoryError(InsertVectorError("get_datasize failed")))
            /\ pc' = [pc EXCEPT ![r] = "done"]
            /\ UNCHANGED loc
    /\ UNCHANGED <<op, envVars, cfgVars, embVars, dataVars>>

\* a handler that goes on to record the usage when the insert has failed
InsertResumeCountsFailure(r, ok) ==
    /\ pc[r] = "ins_insert"
    /\ LET c == svc[r].contractId IN
       IF ok
       THEN /\ IndexInsert(c, EnhancedMetadata(loc[r].body))
            /\ loc' = [loc EXCEPT ![r].result =
                            AssignedId(loc[r].vectorId, DataSize(c) + 1)]
       ELSE UNCHANGED <<loc, db>>
    /\ pc' = [pc EXCEPT ![r] = "quota_sub"]
    /\ UNCHANGED <<resp, op, envVars, cfgVars, embVars, svc, subscriptions>>

\* vectorDb.insert() has stored the vector (or failed, storing nothing);
\* createMemory() returns and the handler awaits getUserSubscription().
InsertResume(r, ok) ==
    /\ pc[r] = "ins_insert"
    /\ LET c == svc[r].contractId IN
       IF ok
       THEN /\ IndexInsert(c, EnhancedMetadata(loc[r].body))
            /\ loc' = [loc EXCEPT ![r].result =
                            AssignedId(loc[r].vectorId, DataSize(c) + 1)]
            /\ pc' = [pc EXCEPT ![r] = "quota_sub"]
            /\ UNCHANGED resp
       ELSE /\ Throw(r, CreateMemoryError(InsertVectorError("insert failed")))
            /\ pc' = [pc EXCEPT ![r] = "done"]
            /\ UNCHANGED <<loc, db>>
    /\ UNCHANGED <<op, envVars, cfgVars, embVars, svc, subscriptions>>

\* memories.ts, line 112
Created(r) == Finish(r, 201, "Memory created successfully", loc[r].result)

\* a handler that lets a failure of the quota update escape to its outer catch
AfterQuotaUpdateRethrow(r, failed) ==
    IF failed THEN Finish(r, 500, "Failed to create memory", -1) ELSE Created(r)

\* memories.ts, lines 101-112: a failure of the quota update is logged and
\* swallowed, and the handler answers with the created memory either way
AfterQuotaUpdate(r, failed) == Created(r)

\* getUserSubscription() returns; incrementQuota() awaits getDocument()
QuotaSubscriptionResume(r, ok) ==
    /\ pc[r] = "quota_sub"
    /\ IF ok /\ subscriptions[loc[r].user].exists
       THEN pc' = [pc EXCEPT ![r] = "quota_get"] /\ UNCHANGED resp
       ELSE AfterQuotaUpdate(r, ~ok)
    /\ UNCHANGED <<op, loc, envVars, cfgVars, embVars, dataVars>>

\* getDocument() returns the subscription; updateQuota() awaits updateDocument()
QuotaReadResume(r, ok) ==
    /\ pc[r] = "quota_get"
    /\ IF ok
       THEN /\ loc' = [loc EXCEPT ![r].quotaUsed = subscriptions[loc[r].user].quotaUsed]
            /\ pc' = [pc EXCEPT ![r] = "quota_put"]
            /\ UNCHANGED resp
       ELSE AfterQuotaUpdate(r, TRUE) /\ UNCHANGED loc
    /\ UNCHANGED <<op, envVars, cfgVars, embVars, dataVars>>

\* updateDocument() has written quotaUsed (or failed); the handler answers 201
QuotaWriteResume(r, ok) ==
    /\ pc[r] = "quota_put"
    /\ IF ok
       THEN /\ subscriptions' = [subscriptions EXCEPT
                    ![loc[r].user].quotaUsed = loc[r].quotaUsed + 1]
            /\ loc' = [loc EXCEPT ![r].quotaUpdated = TRUE]
       ELSE UNCHANGED <<subscriptions, loc>>
    /\ AfterQuotaUpdate(r, ~ok)
    /\ UNCHANGED <<op, envVars, cfgVars, embVars, db, svc>>

RouteNext ==
    \/ \E r \in Reqs, body \in Bodies : InsertRequest(r, "u1", body)
    \/ InsertRequest(1, "u1", [content |-> [text |-> "aaa...a", length |-> MaxContentLength],
                             metadata |-> NoMetadata])
    \/ InsertRequest(NumReqs, "u1", [content |-> [text |-> "aaa...ab", length |-> MaxContentLength + 1],
                                   metadata |-> NoMetadata])
    \/ \E r \in Reqs : InsertRequest(r, "u2", [content |-> ContentA, metadata |-> NoMetadata])
    \/ \E r \in Reqs, ok \in BOOLEAN : AuthResume(r, ok)
    \/ \E r \in Reqs, ok \in BOOLEAN : GateResume(r, ok)
    \/ \E r \in Reqs, ok \in BOOLEAN : InstancesResume(r, ok)
    \/ \E r \in Reqs : ServiceResume(r)
    \/ \E r \in Reqs : CreateMemoryEmbed(r)
    \/ \E r \in Reqs, ok \in BOOLEAN : EmbeddingResume(r, ok)
    \/ \E r \in Reqs, ok \in BOOLEAN : CountResume(r, ok)
    \/ \E r \in Reqs, ok \in BOOLEAN : InsertResume(r, ok)
    \/ \E r \in Reqs, ok \in BOOLEAN : QuotaSubscriptionResume(r, ok)
    \/ \E r \in Reqs, ok \in BOOLEAN : QuotaReadResume(r, ok)
    \/ \E r \in Reqs, ok \in BOOLEAN : QuotaWriteResume(r, ok)
    \/ \E i \in 1..NumReqs, ok \in BOOLEAN : GetArweaveConfigSettle(i, ok)
    \/ \E i \in 1..NumReqs, ok \in BOOLEAN : PipelineSettle(i, ok)

Next == RouteNext

Spec == Init /\ [][Next]_vars

\* The caller keeps to the single-writer assumption: at most one insertVector()
\* is in flight per contract.
SingleWriter ==
    \A c \in Contracts :
        Cardinality({r \in Reqs : pc[r] \in {"ins_count", "ins_insert"}
                                  /\ svc[r].contractId = c}) <= 1

SerialNext == RouteNext /\ SingleWriter'

SerialSpec == Init /\ [][SerialNext]_vars

\* ================================================================== search

\* what the index holds for a vector inserted without metadata (InsertVector:
\* metadata is optional), and what searchVectors() and getVector() make of it
\* (result.metadata || undefined)
UndefinedMetadata == [undefined |-> TRUE]

\* searchMemories() without filters
UndefinedFilters == [undefined |-> TRUE]

\* A client name is its characters.  A timestamp is the instant its string
\* denotes; NaN (0) stands for a string that new Date() cannot parse.
NaN == 0

\* metadata of the vectors a contract may hold
StoredMetadata ==
    { UndefinedMetadata,
      [content |-> ContentA],
      [content |-> ContentA, importance |-> 7, tags |-> {"x"},
       client |-> <<"c", "u", "r">>, timestamp |-> 2, createdAt |-> 5],
      [content |-> ContentB, importance |-> 3, tags |-> {"y"},
       client |-> <<"c", "l", "i">>, createdAt |-> 5] }

\* the filters of a search request
SearchFilters ==
    { UndefinedFilters,
      [importance_min |-> 5],
      [importance_min |-> 1, importance_max |-> 5],
      [tags |-> {"x"}],
      [tags |-> {}],
      [client |-> <<"c", "u">>],
      [date_from |-> 3],
      [date_to |-> 2],
      [date_to |-> 3, date_from |-> NaN],
      [tags |-> {"x", "z"}, importance_min |-> 5, client |-> <<"u", "r">>,
       date_from |-> 2, date_to |-> 4] }

\* searchMemories(), line 92: data.k || 10
DefaultK == 10
EffectiveK(k) == IF k = 0 THEN DefaultK ELSE k

Min(a, b) == IF a <= b THEN a ELSE b

\* vectorDb.knn_search(query, k): the k stored vectors nearest to the query,
\* nearest first.  Which vectors are nearest depends on the query, so every
\* ranking of the stored ids is a possible answer.
KnnSearch(c, k) ==
    LET n == Len(db[c])
        m == Min(k, n)
        rankings == {s \in [1..m -> 0..(n - 1)] :
                        \A i, j \in 1..m : i # j => s[i] # s[j]}
    IN { [i \in 1..m |-> [id |-> s[i], distance |-> i - 1, metadata |-> db[c][s[i] + 1]]] :
            s \in rankings }

\* a searchVectors() that hands the hits back in reverse
EizenSearchResultsReversed(results) ==
    [i \in 1..Len(results) |->
        [id |-> results[Len(results) + 1 - i].id,
         distance |-> results[Len(results) + 1 - i].distance,
         metadata |-> results[Len(results) + 1 - i].metadata]]

\* searchVectors(), lines 297-301
EizenSearchResults(results) ==
    [i \in 1..Len(results) |->
        [id |-> results[i].id, distance |-> results[i].distance,
         metadata |-> results[i].metadata]]

\* searchMemories(), lines 96-101
MemoryResults(searchResults) ==
    [i \in 1..Len(searchResults) |->
        [id |-> searchResults[i].id,
         content |-> ContentOf(searchResults[i].metadata),
         metadata |-> searchResults[i].metadata,
         distance |-> searchResults[i].distance]]

\* ----------------------------------------------------------- applyFilters
\* (memory.metadata.tags as string[]) || []
MemoryTags(metadata) == IF "tags" \in DOMAIN metadata THEN metadata.tags ELSE {}

\* (memory.metadata.importance as number) || 0
Importance(metadata) ==
    IF "importance" \in DOMAIN metadata THEN metadata.importance ELSE 0

\* (memory.metadata.client as string) || ''
Client(metadata) == IF "client" \in DOMAIN metadata THEN metadata.client ELSE <<>>

\* String.prototype.includes
Includes(s, t) ==
    \E i \in 0..(Len(s) - Len(t)) : \A j \in 1..Len(t) : s[i + j] = t[j]

\* memory.metadata.timestamp || memory.metadata.createdAt; NaN when neither
Timestamp(metadata) ==
    IF "timestamp" \in DOMAIN metadata THEN metadata.timestamp
    ELSE IF "createdAt" \in DOMAIN metadata THEN metadata.createdAt
    ELSE NaN

HasTimestamp(metadata) == {"timestamp", "createdAt"} \cap DOMAIN metadata # {}

\* a comparison that also holds for equal instants
DateBeforeOrEqual(a, b) == a # NaN /\ b # NaN /\ a <= b

\* Date < Date and Date > Date: false when either side is an invalid date
DateBefore(a, b) == a # NaN /\ b # NaN /\ a < b
DateAfter(a, b) == a # NaN /\ b # NaN /\ a > b

\* lines 195-199
PassesTags(metadata, filters) ==
    "tags" \in DOMAIN filters => MemoryTags(metadata) \cap filters.tags # {}

\* lines 202-205
PassesImportanceMin(metadata, filters) ==
    "importance_min" \in DOMAIN filters => ~(Importance(metadata) < filters.importance_min)

\* lines 208-211
PassesImportanceMax(metadata, filters) ==
    "importance_max" \in DOMAIN filters => ~(Importance(metadata) > filters.importance_max)

\* lines 214-217: an empty filter string is no filter
PassesClient(metadata, filters) ==
    ("client" \in DOMAIN filters /\ filters.client # <<>>)
        => Includes(Client(metadata), filters.client)

\* lines 220-228
PassesDates(metadata, filters) ==
    ({"date_from", "date_to"} \cap DOMAIN filters # {} /\ HasTimestamp(metadata)) =>
        /\ "date_from" \in DOMAIN filters => ~DateBefore(Timestamp(metadata), filters.date_from)
        /\ "date_to" \in DOMAIN filters => ~DateAfter(Timestamp(metadata), filters.date_to)

\* the predicate of memories.filter(), lines 191-231
Keeps(memory, filters) ==
    IF memory.metadata = UndefinedMetadata THEN TRUE     \* line 192
    ELSE /\ PassesTags(memory.metadata, filters)
         /\ PassesImportanceMin(memory.metadata, filters)
         /\ PassesImportanceMax(memory.metadata, filters)
         /\ PassesClient(memory.metadata, filters)
         /\ PassesDates(memory.metadata, filters)

\* a filter step that hands the memories back farthest first
ApplyFiltersReversed(memories, filters) ==
    [i \in 1..Len(memories) |-> memories[Len(memories) + 1 - i]]

\* applyFilters(), lines 186-232
ApplyFilters(memories, filters) ==
    IF filters = UndefinedFilters THEN memories
    ELSE LET Test(memory) == Keeps(memory, filters) IN SelectSeq(memories, Test)

\* ------------------------------------------------ MemoryService.searchMemories
MaxStored == 3

\* what a contract may hold when a search starts
Stores ==
    UNION { [1..n -> StoredMetadata] : n \in 0..MaxStored }


\* The services exist and are initialized (forContract() has returned), the
\* shared config is cached, and the contract holds some vectors.
SearchInit ==
    /\ nodeEnv = "development"
    /\ walletBalance = 1
    /\ deployed = <<>>
    /\ instancesCollection = InitInstances
    /\ sharedArweaveConfig = 1
    /\ arweaveInitPromise = 1
    /\ arweavePromises = << [state |-> "fulfilled", value |-> 1] >>
    /\ extractor = FALSE
    /\ embeddingInitialized = FALSE
    /\ initializationPromise = NULL
    /\ initPromises = <<>>
    /\ \E store \in Stores : db = [c \in Contracts |-> IF c = "c1" THEN store ELSE <<>>]
    /\ svc = [p \in AllProcs |-> InitializedService(NewService("c1"))]
    /\ subscriptions = [u \in Users |-> Subscription(TRUE, 0)]
    /\ pc = [p \in AllProcs |-> "idle"]
    /\ op = [p \in AllProcs |-> "none"]
    /\ loc = [p \in AllProcs |-> InitLoc]
    /\ resp = [p \in AllProcs |-> InitResp]

\* searchMemories() runs up to the await in embeddingService.ensureInitialized()
SearchMemoriesCall(p, k, filters) ==
    /\ pc[p] = "idle"
    /\ EnsureInitializedCall
    /\ loc' = [loc EXCEPT ![p] =
                    [EnsureInitializedLocal(loc[p]) EXCEPT !.k = k, !.filters = filters]]
    /\ pc' = [pc EXCEPT ![p] = "srch_init"]
    /\ op' = [op EXCEPT ![p] = "search"]
    /\ UNCHANGED <<extractor, embeddingInitialized, resp, envVars, cfgVars, dataVars>>

\* ensureInitialized() resumes; textToEmbeddings() checks the extractor and
\* calls it
SearchMemoriesEmbed(p) ==
    /\ pc[p] = "srch_init"
    /\ InitAwaitReady(loc[p])
    /\ EnsureInitializedResume(loc[p])
    /\ IF EnsureInitializedThrows(loc[p]) \/ ~extractor
       THEN /\ Throw(p, "Failed to search memories: Failed to generate embeddings")
            /\ pc' = [pc EXCEPT ![p] = "done"]
       ELSE /\ pc' = [pc EXCEPT ![p] = "srch_extract"]
            /\ UNCHANGED resp
    /\ loc' = [loc EXCEPT ![p].initPromise = NULL, ![p].initOwner = FALSE]
    /\ UNCHANGED <<extractor, embeddingInitialized, initPromises, op, envVars, cfgVars, dataVars>>

\* The extractor returns the query embedding (or throws); searchVectors() runs
\* up to the await of knn_search().  The service was initialized by
\* forContract().
SearchVectorsCall(p, ok) ==
    /\ pc[p] = "srch_extract"
    /\ IF ~ok
       THEN /\ Throw(p, "Failed to search memories: Failed to generate embeddings")
            /\ pc' = [pc EXCEPT ![p] = "done"]
       ELSE IF ~(svc[p].isInitialized /\ svc[p].vectorDb)
       THEN /\ Throw(p, "Failed to search memories: Vector database not initialized")
            /\ pc' = [pc EXCEPT ![p] = "done"]
       ELSE /\ pc' = [pc EXCEPT ![p] = "srch_knn"]
            /\ UNCHANGED resp
    /\ UNCHANGED <<op, loc, envVars, cfgVars, embVars, dataVars>>

\* knn_search() returns its hits (or fails); searchVectors() maps them,
\* searchMemories() shapes and filters them and returns
SearchVectorsResume(p, ok) ==
    /\ pc[p] = "srch_knn"
    /\ IF ok
       THEN /\ \E results \in KnnSearch(svc[p].contractId, EffectiveK(loc[p].k)) :
                    loc' = [loc EXCEPT
                        ![p].searchResults = EizenSearchResults(results),
                        ![p].memories = ApplyFilters(
                            MemoryResults(EizenSearchResults(results)), loc[p].filters)]
            /\ Return(p, -1)
       ELSE /\ Throw(p, "Failed to search memories: Failed to search vectors")
            /\ UNCHANGED loc
    /\ pc' = [pc EXCEPT ![p] = "done"]
    /\ UNCHANGED <<op, envVars, cfgVars, embVars, dataVars>>

\* A search reads the store and changes nothing but the embedding engine, so
\* one caller searches.
Searchers == {1}

SearchNext ==
    \/ \E p \in Searchers, k \in {0, 1, 2}, filters \in SearchFilters :
            SearchMemoriesCall(p, k, filters)
    \/ \E p \in Searchers : SearchMemoriesEmbed(p)
    \/ \E p \in Searchers, ok \in BOOLEAN : SearchVectorsCall(p, ok)
    \/ \E p \in Searchers, ok \in BOOLEAN : SearchVectorsResume(p, ok)
    \/ \E i \in Searchers, ok \in BOOLEAN : PipelineSettle(i, ok)

SearchSpec == SearchInit /\ [][SearchNext]_vars

\* ============================================== callers of one EizenService

\* In this part the callers work on EizenService instances that forContract()
\* has returned: the callers with an odd number share instance 1, bound to
\* contract c1, the others share instance 2, bound to contract c2.
ServiceOf(p) == IF p % 2 = 1 THEN 1 ELSE 2
ContractOf(p) == svc[ServiceOf(p)].contractId

\* a cleanup that drops the index but keeps the SDK connection
CleanedUpServiceKeepsSdk(s) == [s EXCEPT !.isInitialized = FALSE, !.vectorDb = FALSE]

\* cleanup(), lines 380-382
CleanedUpService(s) ==
    [s EXCEPT !.isInitialized = FALSE, !.vectorDb = FALSE, !.sdk = FALSE]

\* MemoryService.getStats(), lines 151-155, from what EizenService.getStats()
\* returned and embeddingService.getInfo()
MemoryStats(totalVectors, storeInitialized) ==
    [totalMemories |-> totalVectors,
     embeddingService |-> IF embeddingInitialized THEN "xenova" ELSE "unavailable",
     isInitialized |-> storeInitialized /\ embeddingInitialized]


\* the contracts hold one memory each; the embedding engine is loaded
StoreInit ==
    /\ nodeEnv = "development"
    /\ walletBalance = 1
    /\ deployed = <<>>
    /\ instancesCollection = InitInstances
    /\ sharedArweaveConfig = 1
    /\ arweaveInitPromise = 1
    /\ arweavePromises = << [state |-> "fulfilled", value |-> 1] >>
    /\ extractor = TRUE
    /\ embeddingInitialized = TRUE
    /\ initPromises = <<"fulfilled">>
    /\ initializationPromise = NULL
    /\ db = [c \in Contracts |->
                IF c = "c1" THEN << [content |-> ContentA] >> ELSE << [content |-> ContentB] >>]
    /\ svc = [i \in AllProcs |->
                IF i = 1 THEN InitializedService(NewService("c1"))
                ELSE IF i = 2 THEN InitializedService(NewService("c2"))
                ELSE NoService]
    /\ subscriptions = [u \in Users |-> Subscription(TRUE, 0)]
    /\ pc = [p \in AllProcs |-> "idle"]
    /\ op = [p \in AllProcs |-> "none"]
    /\ loc = [p \in AllProcs |-> InitLoc]
    /\ resp = [p \in AllProcs |-> InitResp]

\* The synchronous prefix of ensureInitialized(), lines 239-240: a service that
\* is not initialized calls initialize(), which runs up to its await of the
\* shared config.
StoreEnsureInitializedCall(p) ==
    IF ~svc[ServiceOf(p)].isInitialized
    THEN GetSharedArweaveConfigCall
    ELSE UNCHANGED <<arweaveInitPromise, arweavePromises>>

StoreEnsureInitializedLocal(p) ==
    IF ~svc[ServiceOf(p)].isInitialized
    THEN [ArweaveCallLocal(loc[p]) EXCEPT !.initializing = TRUE]
    ELSE [loc[p] EXCEPT !.arweavePromise = NULL, !.arweaveConfig = NULL,
                        !.initializing = FALSE]

\* insertVector(), searchVectors() and getVector() all start with
\* await this.ensureInitialized()
StoreCall(p, method, metadata, k, memoryId) ==
    /\ pc[p] = "idle"
    /\ StoreEnsureInitializedCall(p)
    /\ loc' = [loc EXCEPT ![p] =
                [StoreEnsureInitializedLocal(p) EXCEPT
                    !.body = [content |-> Undefined, metadata |-> metadata],
                    !.k = k, !.memoryId = memoryId]]
    /\ pc' = [pc EXCEPT ![p] = "st_init"]
    /\ op' = [op EXCEPT ![p] = method]
    /\ UNCHANGED <<sharedArweaveConfig, resp, envVars, embVars, dataVars>>


\* ensureInitialized() resumes: initialize() attaches the index (lines 221-227)
\* or re-throws; lines 243 and 254 (286, 318) look at vectorDb; then the
\* method calls the index and awaits it.
StoreEnsureInitializedResume(p) ==
    /\ pc[p] = "st_init"
    /\ ArweaveAwaitReady(loc[p])
    /\ LET s == ServiceOf(p) IN
       IF loc[p].initializing /\ ArweaveAwaitRejected(loc[p])
       THEN /\ Throw(p, "config")
            /\ pc' = [pc EXCEPT ![p] = "done"]
            /\ UNCHANGED <<sharedArweaveConfig, svc>>
       ELSE /\ IF loc[p].initializing
               THEN /\ GetSharedArweaveConfigResume(loc[p])
                    /\ svc' = [svc EXCEPT ![s] = InitializedService(svc[s])]
               ELSE UNCHANGED <<sharedArweaveConfig, svc>>
            /\ IF svc'[s].vectorDb
               THEN pc' = [pc EXCEPT ![p] = "st_index"] /\ UNCHANGED resp
               ELSE /\ Throw(p, "Vector database not initialized")
                    /\ pc' = [pc EXCEPT ![p] = "done"]
    /\ loc' = [loc EXCEPT ![p].arweavePromise = NULL, ![p].arweaveConfig = NULL,
                          ![p].initializing = FALSE]
    /\ UNCHANGED <<arweaveInitPromise, arweavePromises, op, envVars, embVars, db, subscriptions>>

\* the TypeError of a method call on this.vectorDb when it is null
NullDereference == "Cannot read properties of null"

\* insertVector(): get_datasize() returns the count; line 263 reads
\* this.vectorDb again and awaits insert()
InsertVectorCount(p, ok) ==
    /\ pc[p] = "st_index"
    /\ op[p] = "insertVector"
    /\ IF ok /\ svc[ServiceOf(p)].vectorDb
       THEN /\ loc' = [loc EXCEPT ![p].vectorId = DataSize(ContractOf(p))]
            /\ pc' = [pc EXCEPT ![p] = "st_insert"]
            /\ UNCHANGED resp
       ELSE /\ Throw(p, InsertVectorError(IF ok THEN NullDereference
                                                ELSE "get_datasize failed"))
            /\ pc' = [pc EXCEPT ![p] = "done"]
            /\ UNCHANGED loc
    /\ UNCHANGED <<op, envVars, cfgVars, embVars, dataVars>>

\* insertVector(): insert() has stored the vector (or failed)
InsertVectorResume(p, ok) ==
    /\ pc[p] = "st_insert"
    /\ IF ok
       THEN /\ IndexInsert(ContractOf(p), loc[p].body.metadata)
            /\ loc' = [loc EXCEPT ![p].result =
                        AssignedId(loc[p].vectorId, DataSize(ContractOf(p)) + 1)]
            /\ Return(p, AssignedId(loc[p].vectorId, DataSize(ContractOf(p)) + 1))
       ELSE /\ Throw(p, InsertVectorError("insert failed"))
            /\ UNCHANGED <<loc, db>>
    /\ pc' = [pc EXCEPT ![p] = "done"]
    /\ UNCHANGED <<op, envVars, cfgVars, embVars, svc, subscriptions>>

\* searchVectors(): knn_search() returns its hits (or fails)
SearchVectorsReturn(p, ok) ==
    /\ pc[p] = "st_index"
    /\ op[p] = "searchVectors"
    /\ IF ok
       THEN /\ \E results \in KnnSearch(ContractOf(p), loc[p].k) :
                    loc' = [loc EXCEPT ![p].searchResults = EizenSearchResults(results)]
            /\ Return(p, -1)
       ELSE /\ Throw(p, "Failed to search vectors")
            /\ UNCHANGED loc
    /\ pc' = [pc EXCEPT ![p] = "done"]
    /\ UNCHANGED <<op, envVars, cfgVars, embVars, dataVars>>

\* getVector(): get_vector() returns the vector or nothing (or fails)
GetVectorReturn(p, ok) ==
    /\ pc[p] = "st_index"
    /\ op[p] = "getVector"
    /\ LET vector == GetVector(ContractOf(p), loc[p].memoryId) IN
       IF ok
       THEN /\ loc' = [loc EXCEPT ![p].searchResults =
                        IF vector.found
                        THEN << [id |-> loc[p].memoryId, distance |-> 0,
                                 metadata |-> vector.metadata] >>
                        ELSE <<>>]
            /\ Return(p, IF vector.found THEN loc[p].memoryId ELSE -1)
       ELSE /\ Throw(p, "Failed to retrieve vector")
            /\ UNCHANGED loc
    /\ pc' = [pc EXCEPT ![p] = "done"]
    /\ UNCHANGED <<op, envVars, cfgVars, embVars, dataVars>>

\* cleanup() has no await
CleanupCall(p) ==
    /\ pc[p] = "idle"
    /\ svc' = [svc EXCEPT ![ServiceOf(p)] = CleanedUpService(svc[ServiceOf(p)])]
    /\ Return(p, -1)
    /\ pc' = [pc EXCEPT ![p] = "done"]
    /\ op' = [op EXCEPT ![p] = "cleanup"]
    /\ UNCHANGED <<loc, envVars, cfgVars, embVars, db, subscriptions>>

\* MemoryService.getStats() calls EizenService.getStats(), which awaits
\* get_datasize() when the index is attached and answers 0 otherwise
GetStatsCall(p) ==
    /\ pc[p] = "idle"
    /\ op' = [op EXCEPT ![p] = "getStats"]
    /\ IF svc[ServiceOf(p)].vectorDb
       THEN /\ pc' = [pc EXCEPT ![p] = "stats_count"]
            /\ UNCHANGED <<loc, resp>>
       ELSE /\ loc' = [loc EXCEPT ![p].stats =
                        MemoryStats(0, svc[ServiceOf(p)].isInitialized)]
            /\ Return(p, -1)
            /\ pc' = [pc EXCEPT ![p] = "done"]
    /\ UNCHANGED <<envVars, cfgVars, embVars, dataVars>>

\* get_datasize() returns the count or fails; EizenService.getStats() returns
\* either way and MemoryService.getStats() adds the state of the engine
GetStatsResume(p, ok) ==
    /\ pc[p] = "stats_count"
    /\ LET totalVectors == IF ok THEN DataSize(ContractOf(p)) ELSE 0 IN
       loc' = [loc EXCEPT ![p].stats =
                MemoryStats(totalVectors, svc[ServiceOf(p)].isInitialized)]
    /\ Return(p, -1)
    /\ pc' = [pc EXCEPT ![p] = "done"]
    /\ UNCHANGED <<op, envVars, cfgVars, embVars, dataVars>>


StoreNext ==
    \/ \E p \in Procs,
          metadata \in {UndefinedMetadata, [content |-> ContentB, importance |-> 3]} :
            StoreCall(p, "insertVector", metadata, 0, -1)
    \/ \E p \in Procs : StoreCall(p, "searchVectors", NoMetadata, 1, -1)
    \/ \E p \in Procs, memoryId \in {0, 1} : StoreCall(p, "getVector", NoMetadata, 0, memoryId)
    \/ \E p \in Procs : StoreEnsureInitializedResume(p)
    \/ \E p \in Procs, ok \in BOOLEAN : InsertVectorCount(p, ok)
    \/ \E p \in Procs, ok \in BOOLEAN : InsertVectorResume(p, ok)
    \/ \E p \in Procs, ok \in BOOLEAN : SearchVectorsReturn(p, ok)
    \/ \E p \in Procs, ok \in BOOLEAN : GetVectorReturn(p, ok)
    \/ \E p \in Procs : CleanupCall(p)
    \/ \E p \in Procs : GetStatsCall(p)
    \/ \E p \in Procs, ok \in BOOLEAN : GetStatsResume(p, ok)

StoreSpec == StoreInit /\ [][StoreNext]_vars

\* ================================================ batchTextToEmbeddings

MaxTexts == 2        \* texts in one batch
MaxDim == 2          \* length of an axis of the response tensor
MaxData == 4         \* length of the response buffer

\* the shapes (dims) of a response tensor, of rank 0 to 3
TensorDims ==
    UNION { [1..rank -> 0..MaxDim] : rank \in 0..2 } \cup { <<1, 1, 1>> }

\* the response buffer: its elements are told apart by their position
TensorData(length) == [i \in 1..length |-> i]

\* Array.prototype.slice(start, end) on a buffer, with 0 <= start <= end
Slice(data, start, end) ==
    [i \in 1..(Min(end, Len(data)) - Min(start, Len(data))) |-> data[start + i]]

\* an error thrown inside the try block, named by the message of its cause
BatchError(message) == [error |-> TRUE, message |-> message, results |-> <<>>]

\* lines 145-150: the whole buffer is the one embedding
Rank1Result(embeddingDim, data) ==
    [error |-> FALSE, message |-> "none", results |-> << ArrayFrom(data) >>]

\* lines 152-169: one slice of embeddingDim elements per text
Rank2Result(n, embeddingDim, data) ==
    IF \E i \in 0..(n - 1) :
            i * embeddingDim >= Len(data) \/ i * embeddingDim + embeddingDim > Len(data)
    THEN BatchError("Index out of bounds")
    ELSE [error |-> FALSE, message |-> "none",
          results |-> [i \in 1..n |->
                Slice(data, (i - 1) * embeddingDim, (i - 1) * embeddingDim + embeddingDim)]]

\* batchTextToEmbeddings(), lines 128-177, for n texts and the response of the
\* extractor
BatchResults(n, dims, data) ==
    LET embeddingDim == IF Len(dims) = 0 THEN 0 ELSE dims[Len(dims)]
        batchDim == IF Len(dims) = 0 THEN 0 ELSE dims[1]
    IN IF embeddingDim <= 0 THEN BatchError("Invalid embedding dimension")
       ELSE IF batchDim # n THEN BatchError("Batch dimension mismatch")
       ELSE IF Len(dims) = 1
       THEN IF n # 1 THEN BatchError("Expected 1 text for 1D tensor")
            ELSE Rank1Result(embeddingDim, data)
       ELSE IF Len(dims) = 2 THEN Rank2Result(n, embeddingDim, data)
       ELSE BatchError("Unexpected tensor dimensionality")

\* batchTextToEmbeddings() runs up to the await in ensureInitialized()
BatchCall(p, n) ==
    /\ pc[p] = "idle"
    /\ EnsureInitializedCall
    /\ loc' = [loc EXCEPT ![p] = [EnsureInitializedLocal(loc[p]) EXCEPT !.texts = n]]
    /\ pc' = [pc EXCEPT ![p] = "batch_init"]
    /\ op' = [op EXCEPT ![p] = "batchTextToEmbeddings"]
    /\ UNCHANGED <<extractor, embeddingInitialized, resp, envVars, cfgVars, dataVars>>

\* ensureInitialized() resumes; line 116 checks the extractor, line 123 calls it
BatchEmbed(p) ==
    /\ pc[p] = "batch_init"
    /\ InitAwaitReady(loc[p])
    /\ EnsureInitializedResume(loc[p])
    /\ IF EnsureInitializedThrows(loc[p])
       THEN /\ Throw(p, "Failed to initialize")
            /\ pc' = [pc EXCEPT ![p] = "done"]
       ELSE IF ~extractor
       THEN /\ Throw(p, "Extractor not initialized")
            /\ pc' = [pc EXCEPT ![p] = "done"]
       ELSE /\ pc' = [pc EXCEPT ![p] = "batch_extract"]
            /\ UNCHANGED resp
    /\ loc' = [loc EXCEPT ![p].initPromise = NULL, ![p].initOwner = FALSE]
    /\ UNCHANGED <<extractor, embeddingInitialized, initPromises, op, envVars, cfgVars, dataVars>>

\* the extractor returns a tensor (or throws) and the batch is cut up; the
\* error of lines 178-182 is named here by the message of its cause
BatchResume(p, ok, dims, length) ==
    /\ pc[p] = "batch_extract"
    /\ LET batch == BatchResults(loc[p].texts, dims, TensorData(length)) IN
       IF ~ok
       THEN /\ Throw(p, "extractor failed")
            /\ UNCHANGED loc
       ELSE IF ~batch.error
       THEN /\ loc' = [loc EXCEPT ![p].response = [dims |-> dims, data |-> TensorData(length)],
                                  ![p].embeddings = batch.results]
            /\ Return(p, -1)
       ELSE /\ loc' = [loc EXCEPT ![p].response = [dims |-> dims, data |-> TensorData(length)]]
            /\ Throw(p, batch.message)
    /\ pc' = [pc EXCEPT ![p] = "done"]
    /\ UNCHANGED <<op, envVars, cfgVars, embVars, dataVars>>

\* A batch depends on nothing but its texts and the response of the extractor,
\* so one caller embeds batches.
Batchers == {1}

BatchNext ==
    \/ \E p \in Batchers, n \in 0..MaxTexts : BatchCall(p, n)
    \/ \E p \in Batchers : BatchEmbed(p)
    \/ \E p \in Batchers, ok \in BOOLEAN, dims \in TensorDims, length \in 0..MaxData :
            BatchResume(p, ok, dims, length)
    \/ \E i \in Batchers, ok \in BOOLEAN : PipelineSettle(i, ok)

BatchSpec == EmbedInit /\ [][BatchNext]_vars

\* ======================================================== /instances/:id

\* In this part each caller is one authenticated user: the callers with an odd
\* number are u1, the others u2.
UserOf(p) == IF p % 2 = 1 THEN "u1" ELSE "u2"

\* every user has an active subscription with room
InstanceInit ==
    /\ nodeEnv = "development"
    /\ walletBalance = 1
    /\ subscriptions = [u \in Users |-> Subscription(TRUE, 0)]
    /\ InitCommon

\* GET or DELETE /instances/:id arrives; authMiddleware awaits account.get()
InstanceRequest(p, method, id) ==
    /\ pc[p] = "idle"
    /\ pc' = [pc EXCEPT ![p] = "inst_auth"]
    /\ op' = [op EXCEPT ![p] = method]
    /\ loc' = [loc EXCEPT ![p].user = UserOf(p), ![p].instanceId = id]
    /\ UNCHANGED <<resp, envVars, cfgVars, embVars, dataVars>>


\* authMiddleware resumes: 401 for an invalid session; otherwise the handler
\* runs up to the await of AppwriteService.getInstance()
InstanceAuthResume(p, ok) ==
    /\ pc[p] = "inst_auth"
    /\ IF ok THEN pc' = [pc EXCEPT ![p] = "inst_get"] /\ UNCHANGED resp
             ELSE Finish(p, 401, "Invalid or expired session token", -1)
    /\ UNCHANGED <<op, loc, envVars, cfgVars, embVars, dataVars>>

\* the message of the handler's catch block
InstanceFailure(method) ==
    IF method = "getInstance" THEN "Failed to fetch instance" ELSE "Failed to delete instance"

\* getInstance() returns the document, returns nothing, or throws; the
\* handler verifies the ownership and answers, or awaits deleteInstance()
InstanceGetResume(p, ok) ==
    /\ pc[p] = "inst_get"
    /\ LET instance == instancesCollection[loc[p].instanceId] IN
       IF ~ok
       THEN Finish(p, 500, InstanceFailure(op[p]), -1) /\ UNCHANGED loc
       ELSE IF ~instance.exists
       THEN Finish(p, 404, "Instance not found", -1) /\ UNCHANGED loc
       ELSE /\ loc' = [loc EXCEPT ![p].instance = instance]
            /\ IF instance.userId # loc[p].user
               THEN Finish(p, 403, "Access denied", -1)
               ELSE IF op[p] = "getInstance"
               THEN Finish(p, 200, "Instance retrieved successfully", -1)
               ELSE pc' = [pc EXCEPT ![p] = "inst_delete"] /\ UNCHANGED resp
    /\ UNCHANGED <<op, envVars, cfgVars, embVars, dataVars>>

\* deleteInstance() has deleted the document, or failed (as it does for a
\* document that is gone)
InstanceDeleteResume(p, ok) ==
    /\ pc[p] = "inst_delete"
    /\ IF ok /\ instancesCollection[loc[p].instanceId].exists
       THEN /\ instancesCollection' =
                    [instancesCollection EXCEPT ![loc[p].instanceId] = NoInstance]
            /\ Finish(p, 200, "Instance deleted successfully", -1)
       ELSE /\ Finish(p, 500, InstanceFailure(op[p]), -1)
            /\ UNCHANGED instancesCollection
    /\ UNCHANGED <<op, loc, nodeEnv, walletBalance, deployed, cfgVars, embVars, dataVars>>

\* The instance requests run next to memory requests, which are followed up to
\* the choice of the contract in getUserMemoryService().
InstanceNext ==
    \/ \E p \in Procs, id \in InstanceIds : InstanceRequest(p, "getInstance", id)
    \/ \E p \in Procs, id \in InstanceIds : InstanceRequest(p, "deleteInstance", id)
    \/ \E p \in Procs, ok \in BOOLEAN : InstanceAuthResume(p, ok)
    \/ \E p \in Procs, ok \in BOOLEAN : InstanceGetResume(p, ok)
    \/ \E p \in Procs, ok \in BOOLEAN : InstanceDeleteResume(p, ok)
    \/ \E r \in Reqs :
            InsertRequest(r, UserOf(r), [content |-> ContentA, metadata |-> NoMetadata])
    \/ \E r \in Reqs, ok \in BOOLEAN : AuthResume(r, ok)
    \/ \E r \in Reqs, ok \in BOOLEAN : GateResume(r, ok)
    \/ \E r \in Reqs, ok \in BOOLEAN : InstancesResume(r, ok)

InstanceSpec == InstanceInit /\ [][InstanceNext]_vars

\* ================================================================ /health

\* health.ts, line 46: every value is 'healthy' or typeof v === 'string'
AllHealthy(checks) ==
    \A k \in DOMAIN checks : checks[k] = "healthy" \/ checks[k] \in STRING

\* GET /health answers at once
HealthRequest(p) ==
    /\ pc[p] = "idle"
    /\ op' = [op EXCEPT ![p] = "health"]
    /\ Finish(p, 200, "healthy", -1)
    /\ UNCHANGED <<loc, envVars, cfgVars, embVars, dataVars>>

\* GET /health/detailed builds its checks and awaits listCollections()
HealthDetailedRequest(p, timestamp) ==
    /\ pc[p] = "idle"
    /\ op' = [op EXCEPT ![p] = "healthDetailed"]
    /\ pc' = [pc EXCEPT ![p] = "health_list"]
    /\ loc' = [loc EXCEPT ![p].checks =
                    [api |-> "healthy", appwrite |-> "unknown", timestamp |-> timestamp]]
    /\ UNCHANGED <<resp, envVars, cfgVars, embVars, dataVars>>

\* listCollections() returns or throws; the handler answers
HealthDetailedResume(p, ok) ==
    /\ pc[p] = "health_list"
    /\ LET checks == [loc[p].checks EXCEPT
                        !.appwrite = IF ok THEN "healthy" ELSE "unhealthy"] IN
       /\ loc' = [loc EXCEPT ![p].checks = checks]
       /\ Finish(p, IF AllHealthy(checks) THEN 200 ELSE 503, checks.appwrite, -1)
    /\ UNCHANGED <<op, envVars, cfgVars, embVars, dataVars>>

HealthNext ==
    \/ \E p \in Procs : HealthRequest(p)
    \/ \E p \in Procs, timestamp \in {"2025-01-01T00:00:00.000Z", "2025-01-02T00:00:00.000Z"} : HealthDetailedRequest(p, timestamp)
    \/ \E p \in Procs, ok \in BOOLEAN : HealthDetailedResume(p, ok)

HealthSpec == EmbedInit /\ [][HealthNext]_vars

\* ================================================================== claims

\* the callers that have asked for the shared config
ConfigRequested == \E p \in Procs : op[p] \in {"forContract", "deploy"}

\* C1: however many callers (forContract or deployNewContract) ask for the
\* shared config before it exists, getArweaveConfig() is invoked exactly once,
\* and every caller that gets a config gets the same object, which is the
\* cached one.
C1_SingleSharedInit ==
    /\ GetArweaveConfigCalls <= 1
    /\ ConfigRequested => GetArweaveConfigCalls = 1
    /\ \A p \in Procs : loc[p].arweaveConfig # NULL =>
            /\ loc[p].arweaveConfig = sharedArweaveConfig
            /\ \A q \in Procs : loc[q].arweaveConfig # NULL =>
                    loc[q].arweaveConfig = loc[p].arweaveConfig

\* two callers of different entry points, both of which arrived before the
\* config existed and awaited the same in-flight promise, hold the same config
C1_Witness ==
    \E p, q \in Procs :
        /\ op[p] = "forContract" /\ op[q] = "deploy"
        /\ loc[p].arweavePromise = 1 /\ loc[q].arweavePromise = 1
        /\ loc[p].arweaveConfig # NULL
        /\ loc[q].arweaveConfig = loc[p].arweaveConfig

\* a caller has seen getArweaveConfig() fail
ConfigFailureObserved ==
    \E p \in Procs : resp[p].result = "error" /\ resp[p].message = "config"

\* C2: a failed shared-config initialization is not cached: once a caller has
\* observed the rejection, the rejected promise is no longer the memoized one
\* (so that the next call starts a fresh getArweaveConfig()).
C2_FailedInitNotCached ==
    ConfigFailureObserved =>
        ~(/\ arweaveInitPromise # NULL
          /\ arweavePromises[arweaveInitPromise].state = "rejected")
\* the loads in flight
PendingLoads == {i \in 1..Len(initPromises) : initPromises[i] = "pending"}
SucceededLoads == {i \in 1..Len(initPromises) : initPromises[i] = "fulfilled"}

\* C6: ensureInitialized() is single-flight and idempotent: at most one model
\* load is in flight, it is the memoized one (so every caller that arrives
\* while it is in flight waits on it), a suspended caller never waits on a
\* load other than the one that was memoized when it arrived, and no load is
\* started after one has succeeded.
C6_SingleFlightLoad ==
    /\ Cardinality(PendingLoads) <= 1
    /\ \A i \in PendingLoads : initializationPromise = i
    /\ \A i \in SucceededLoads : i = Len(initPromises) /\ embeddingInitialized /\ extractor
    /\ \A p \in Procs : pc[p] = "emb_init" /\ PendingLoads # {} =>
            loc[p].initPromise \in PendingLoads \/ InitAwaitReady(loc[p])

\* three callers arrived before the load completed, one load was started and
\* all three wait on it
C6_Witness ==
    /\ PipelineCalls = 1
    /\ \A p \in Procs : pc[p] = "emb_init" /\ loc[p].initPromise = 1
    /\ initPromises[1] = "pending"

\* C7: a failed model load is retryable: a rejected promise stays memoized
\* only until the caller that started it resumes; every caller that waited on
\* a failed load gets the failure; and whenever the engine is not ready and no
\* caller is suspended on a started load, nothing is memoized, so that the
\* next ensureInitialized() starts a new load.
C7_FailedLoadRetryable ==
    /\ \A i \in 1..Len(initPromises) :
            initPromises[i] = "rejected" /\ initializationPromise = i =>
                \E p \in Procs : /\ pc[p] = "emb_init"
                                  /\ loc[p].initOwner
                                  /\ loc[p].initPromise = i
    /\ \A p \in Procs :
            pc[p] = "done" /\ InitAwaitRejected(loc[p]) => resp[p].result = "error"
    /\ (~embeddingInitialized /\ \A p \in Procs : pc[p] # "emb_init") =>
            initializationPromise = NULL

\* a load failed, both callers that waited on it got the failure, and the
\* next call started a second load, which made the engine ready
C7_Witness ==
    /\ initPromises = <<"rejected", "fulfilled">>
    /\ embeddingInitialized
    /\ \E p, q, r \in Procs :
            /\ p # q
            /\ loc[p].initPromise = 1 /\ resp[p].result = "error"
            /\ loc[q].initPromise = 1 /\ resp[q].result = "error"
            /\ loc[r].initPromise = 2 /\ resp[r].result = "ok"
\* the requests whose createMemory() has returned a result
Stored(c) == {r \in Reqs : loc[r].result # -1 /\ svc[r].contractId = c}

\* C3: with at most one insert in flight per tenant, insertVector() returns
\* the element count it read before inserting: the ids returned for a tenant
\* that started empty are 0, 1, 2, ... without gap or repeat (so the first
\* createMemory returns 0), and each id addresses the caller's own record.
C3_SequentialIds ==
    \A c \in Contracts :
        /\ Cardinality(Stored(c)) = Len(db[c])
        /\ {loc[r].result : r \in Stored(c)} = 0..(Len(db[c]) - 1)
        /\ \A r \in Stored(c) :
            /\ loc[r].result = loc[r].vectorId
            /\ db[c][loc[r].result + 1] = EnhancedMetadata(loc[r].body)
            /\ resp[r].status = 201 => resp[r].memoryId = loc[r].result

\* two serialized creations on one tenant were answered with ids 0 and 1
C3_Witness ==
    \E r1, r2 \in Reqs :
        /\ svc[r1].contractId = svc[r2].contractId
        /\ resp[r1].status = 201 /\ resp[r1].memoryId = 0
        /\ resp[r2].status = 201 /\ resp[r2].memoryId = 1

\* C4: nothing serializes the read-count/insert pair of insertVector(): two
\* inserts into one tenant can read the same count and return the same id
\* while both vectors are stored.  Whatever the interleaving, every returned
\* id is a count that was read before the insert (hence below the current
\* size), and the index holds one record per returned insert.
C4_CountReadBeforeInsert ==
    \A c \in Contracts :
        /\ Cardinality(Stored(c)) = Len(db[c])
        /\ \A r \in Stored(c) :
            /\ loc[r].result = loc[r].vectorId
            /\ loc[r].result \in 0..(Len(db[c]) - 1)
            /\ resp[r].status = 201 => resp[r].memoryId = loc[r].result

\* two requests with different contents were both answered with id 0, and the
\* tenant holds both records
C4_Witness ==
    \E r1, r2 \in Reqs :
        /\ r1 # r2
        /\ svc[r1].contractId = svc[r2].contractId
        /\ resp[r1].status = 201 /\ resp[r2].status = 201
        /\ resp[r1].memoryId = resp[r2].memoryId
        /\ loc[r1].body.content # loc[r2].body.content
        /\ Len(db[svc[r1].contractId]) = 2
        /\ db[svc[r1].contractId][1] # db[svc[r1].contractId][2]

\* C5: round trip: after createMemory(content, metadata) has returned
\* memoryId, getMemory(memoryId) on the same tenant returns a record whose
\* content and metadata.content equal the content given.
C5_RoundTrip ==
    \A r \in Reqs : loc[r].result # -1 =>
        LET memory == GetMemory(svc[r].contractId, loc[r].result) IN
        /\ memory.found
        /\ memory.content = loc[r].body.content
        /\ memory.metadata["content"] = loc[r].body.content

\* C8: the quota gate answers 403 without a subscription, 403 for an inactive
\* one (whatever its usage), 429 for an active one with quotaUsed >=
\* quotaLimit, and in these cases the request ends there; it hands the request
\* on (to the validator and the handler) only for an active subscription with
\* quotaUsed < quotaLimit.  (500 when the lookup itself fails.)
C8_QuotaGate ==
    [][\A r \in Reqs : pc[r] = "gate_sub" /\ pc'[r] # "gate_sub" =>
        LET sub == subscriptions[loc[r].user]
            rejected(status) == pc'[r] = "done" /\ resp'[r].status = status
                                /\ svc'[r] = NoService
        IN  \/ rejected(500)
            \/ ~sub.exists /\ rejected(403)
            \/ sub.exists /\ ~sub.isActive /\ rejected(403)
            \/ sub.exists /\ sub.isActive /\ sub.quotaUsed >= sub.quotaLimit
                    /\ rejected(429)
            \/ /\ sub.exists /\ sub.isActive /\ sub.quotaUsed < sub.quotaLimit
               /\ loc'[r].subscription = sub
               /\ \/ pc'[r] = "svc_instances"
                  \/ rejected(400) /\ ~ValidBody(loc[r].body)]_vars

\* an inactive subscription at its limit was answered 403, and another
\* request went through the gate and created a memory
C8_Witness ==
    \E r1, r2 \in Reqs :
        /\ resp[r1].status = 403
        /\ subscriptions[loc[r1].user] = Subscription(FALSE, QuotaLimit)
        /\ resp[r2].status = 201
        /\ loc[r2].subscription = Subscription(TRUE, InitialQuotaUsed)

\* C9: each successful creation whose usage recording succeeded has added
\* exactly 1 to quotaUsed, in any interleaving.
C9_QuotaCountsCreations ==
    \A u \in Users : subscriptions[u].exists /\ subscriptions[u].isActive =>
        subscriptions[u].quotaUsed =
            InitialQuotaUsed
            + Cardinality({r \in Reqs : loc[r].user = u /\ loc[r].quotaUpdated})

\* C10: usage accounting is best-effort: once createMemory() has returned, the
\* request is answered 201 with the id it returned, whether or not reading
\* the subscription or incrementing quotaUsed fails, and the record stays in
\* the index.
C10_BestEffortAccounting ==
    \A r \in Reqs : loc[r].result # -1 =>
        /\ \/ pc[r] \in {"quota_sub", "quota_get", "quota_put"}
           \/ /\ pc[r] = "done"
              /\ resp[r].status = 201
              /\ resp[r].result = "ok"
              /\ resp[r].memoryId = loc[r].result
        /\ GetVector(svc[r].contractId, loc[r].result).found

\* a request was answered 201 although its usage was not recorded, and its
\* memory is in the index
C10_Witness ==
    \E r \in Reqs :
        /\ resp[r].status = 201
        /\ ~loc[r].quotaUpdated
        /\ subscriptions[loc[r].user].exists
        /\ GetMemory(svc[r].contractId, resp[r].memoryId).found

\* --------------------------------------------------------------- searches
\* the searches that have returned a result
Searched == {p \in Procs : op[p] = "search" /\ pc[p] = "done" /\ resp[p].result = "ok"}

\* C11: a search with filters.importance_min = m, m >= 1, returns no hit whose
\* metadata importance is below m or absent, hits without any metadata
\* included.
C11_ImportanceMinFilter ==
    \A p \in Searched :
        ("importance_min" \in DOMAIN loc[p].filters /\ loc[p].filters.importance_min >= 1) =>
            \A i \in 1..Len(loc[p].memories) :
                LET metadata == loc[p].memories[i].metadata IN
                /\ "importance" \in DOMAIN metadata
                /\ metadata.importance >= loc[p].filters.importance_min

\* C12: a search with a tag filter returns no hit whose tags do not intersect
\* the filter's tags; a hit without a tags field, or without metadata, counts
\* as having no tags and is never returned.
C12_TagFilter ==
    \A p \in Searched :
        "tags" \in DOMAIN loc[p].filters =>
            \A i \in 1..Len(loc[p].memories) :
                LET metadata == loc[p].memories[i].metadata IN
                /\ "tags" \in DOMAIN metadata
                /\ metadata.tags \cap loc[p].filters.tags # {}

\* the position of a returned memory among the hits of the store
HitPosition(p, i) ==
    CHOOSE j \in 1..Len(loc[p].searchResults) :
        loc[p].searchResults[j].id = loc[p].memories[i].id

\* C13: what searchMemories returns is a subsequence of the hits the store
\* returned for the query: every memory is one of the hits, shaped but not
\* altered, the hits keep their relative order, none appears twice, and there
\* are at most k of them.
C13_ResultIsSubsequence ==
    \A p \in Searched :
        LET hits == loc[p].searchResults
            memories == loc[p].memories
        IN /\ Len(memories) <= Len(hits)
           /\ Len(memories) <= EffectiveK(loc[p].k)
           /\ \A i \in 1..Len(memories) :
                \E j \in 1..Len(hits) :
                    /\ memories[i].id = hits[j].id
                    /\ memories[i].distance = hits[j].distance
                    /\ memories[i].metadata = hits[j].metadata
           /\ \A i, j \in 1..Len(memories) :
                i < j => HitPosition(p, i) < HitPosition(p, j)

\* a search whose filter removed a hit and kept two others
C13_Witness ==
    \E p \in Searched :
        /\ Len(loc[p].memories) >= 2
        /\ Len(loc[p].memories) < Len(loc[p].searchResults)
        /\ loc[p].filters # UndefinedFilters

\* The filter semantics as documented: a field the hit lacks counts as no tags,
\* importance 0 and the empty client; every filter present must pass.
ReferenceKeeps(metadata, filters) ==
    LET tags == IF "tags" \in DOMAIN metadata THEN metadata.tags ELSE {}
        importance == IF "importance" \in DOMAIN metadata THEN metadata.importance ELSE 0
        client == IF "client" \in DOMAIN metadata THEN metadata.client ELSE <<>>
    IN /\ "tags" \in DOMAIN filters => tags \cap filters.tags # {}
       /\ "importance_min" \in DOMAIN filters => filters.importance_min <= importance
       /\ "importance_max" \in DOMAIN filters => importance <= filters.importance_max
       /\ "client" \in DOMAIN filters =>
            \E i \in 0..Len(client) :
                /\ i + Len(filters.client) <= Len(client)
                /\ \A j \in 1..Len(filters.client) : client[i + j] = filters.client[j]

\* C23: for a search whose filters are tags, importance bounds and client
\* (no date bound), the memories returned are exactly the hits that pass every
\* filter present, in the order of the hits: tags pass on a non-empty
\* intersection, importance when importance_min <= importance <=
\* importance_max with a missing importance counted as 0, client when the
\* filter value is a substring of the hit's client with a missing client
\* counted as the empty string.
C23_FiltersMatchReference ==
    \A p \in Searched :
        {"date_from", "date_to"} \cap DOMAIN loc[p].filters = {} =>
            LET Test(memory) == ReferenceKeeps(memory.metadata, loc[p].filters)
            IN loc[p].memories = SelectSeq(MemoryResults(loc[p].searchResults), Test)

\* the date of a hit as documented: its timestamp, else its createdAt
HitDate(metadata) ==
    IF "timestamp" \in DOMAIN metadata THEN metadata.timestamp ELSE metadata.createdAt

\* the instant lies in the inclusive range of the bounds that are present
InRange(t, filters) ==
    /\ "date_from" \in DOMAIN filters => filters.date_from <= t
    /\ "date_to" \in DOMAIN filters => t <= filters.date_to

\* the searches with a date bound, all of whose bounds are valid dates
DateSearched ==
    {p \in Searched :
        /\ {"date_from", "date_to"} \cap DOMAIN loc[p].filters # {}
        /\ \A f \in {"date_from", "date_to"} \cap DOMAIN loc[p].filters :
                loc[p].filters[f] # NaN}

\* C24: in a search with date_from and/or date_to, a hit whose timestamp (its
\* createdAt when it has no timestamp) lies strictly outside the range is not
\* returned; a hit whose date lies inside the inclusive range, and a hit with
\* neither timestamp nor createdAt, is returned when it passes the other
\* filters of the search.
C24_DateFilter ==
    \A p \in DateSearched :
        \A j \in 1..Len(loc[p].searchResults) :
            LET hit == loc[p].searchResults[j]
                filters == loc[p].filters
                dated == {"timestamp", "createdAt"} \cap DOMAIN hit.metadata # {}
                returned == \E i \in 1..Len(loc[p].memories) : loc[p].memories[i].id = hit.id
            IN /\ (dated /\ ~InRange(HitDate(hit.metadata), filters)) => ~returned
               /\ (dated /\ InRange(HitDate(hit.metadata), filters)
                        /\ ReferenceKeeps(hit.metadata, filters)) => returned
               /\ (~dated /\ ReferenceKeeps(hit.metadata, filters)) => returned

\* one search with date_from met all the cases: a hit dated before the bound by
\* its timestamp (its createdAt lies after it) was removed, a hit dated after
\* the bound and a hit without any date were returned
C24_Witness ==
    /\ \E p \in DateSearched :
        /\ "date_to" \notin DOMAIN loc[p].filters
        /\ \E j \in 1..Len(loc[p].searchResults) :
            LET metadata == loc[p].searchResults[j].metadata IN
            /\ {"timestamp", "createdAt"} \subseteq DOMAIN metadata
            /\ metadata.timestamp < loc[p].filters.date_from
            /\ metadata.createdAt > loc[p].filters.date_from
            /\ \A i \in 1..Len(loc[p].memories) :
                    loc[p].memories[i].id # loc[p].searchResults[j].id
        /\ \E i \in 1..Len(loc[p].memories) :
            /\ "createdAt" \in DOMAIN loc[p].memories[i].metadata
            /\ loc[p].memories[i].metadata.createdAt > loc[p].filters.date_from
        /\ \E i \in 1..Len(loc[p].memories) :
            {"timestamp", "createdAt"} \cap DOMAIN loc[p].memories[i].metadata = {}

Inserting(c) == {r \in Reqs : pc[r] = "ins_insert" /\ svc[r].contractId = c}

\* C14: the metadata createMemory stores has the original content text as its
\* content field, also when the caller's metadata carries another content,
\* and every other key of the caller's metadata unchanged (and no other key).
C14_ContentForced ==
    [][\A c \in Contracts :
        db'[c] # db[c] =>
            \E r \in Inserting(c) :
                LET data == loc[r].body
                    stored == db'[c][Len(db'[c])]
                IN /\ pc'[r] # "ins_insert"
                   /\ db'[c] = Append(db[c], stored)
                   /\ stored["content"] = data.content
                   /\ DOMAIN stored = DOMAIN data.metadata \cup {"content"}
                   /\ \A k \in DOMAIN data.metadata \ {"content"} :
                            stored[k] = data.metadata[k]
      ]_vars

\* a memory was stored whose caller metadata carried another content
C14_Witness ==
    \E c \in Contracts : \E i \in 1..Len(db[c]) :
        /\ db[c][i]["content"] = ContentB
        /\ CallerMetadata["content"] # ContentB
        /\ db[c][i]["importance"] = CallerMetadata["importance"]

\* -------------------------------------------------- createMemory's steps
\* the causes for which the embedding step of createMemory() fails: before the
\* extractor is called, and the extractor's own failure
LoadCauses == {"pipeline failed", "EmbeddingService is not properly initialized",
               "Extractor not initialized"}

\* the message ends with the message of the cause, behind the prefixes of the
\* functions the error passed through
CarriesCause(message, cause) ==
    \/ message = "Failed to create memory: Failed to generate embeddings: " \o cause
    \/ message = "Failed to create memory: Failed to generate embeddings: "
                    \o "Failed to generate embeddings: " \o cause

\* C25: createMemory() embeds, then inserts.  The embedding is computed once,
\* before the count is read and before anything is stored; createMemory()
\* returns in the step that appends exactly one vector to its contract, it
\* returns once, and no vector is stored in any other step.  When the
\* embedding step fails, no count was read, nothing is stored, and the call
\* fails with a message that ends with the message of the cause.
C25_EmbedThenInsert ==
    [][ /\ \A r \in Reqs :
            LET c == svc[r].contractId
                embedFails == pc[r] \in {"emb_init", "emb_extract"} /\ pc'[r] = "done"
            IN /\ loc'[r].embeddings # loc[r].embeddings =>
                    /\ pc[r] = "emb_extract"
                    /\ loc[r].embeddings = <<>>
                    /\ loc[r].vectorId = -1
                    /\ db' = db
               /\ loc'[r].vectorId # loc[r].vectorId => loc[r].embeddings # <<>>
               /\ loc'[r].result # loc[r].result =>
                    /\ loc[r].result = -1
                    /\ loc[r].embeddings # <<>>
                    /\ Len(db'[c]) = Len(db[c]) + 1
                    /\ \A i \in 1..Len(db[c]) : db'[c][i] = db[c][i]
                    /\ \A other \in Contracts \ {c} : db'[other] = db[other]
               /\ embedFails =>
                    /\ db' = db
                    /\ loc'[r].vectorId = -1 /\ loc'[r].result = -1
                    /\ resp'[r].result = "error"
                    /\ IF pc[r] = "emb_extract"
                       THEN CarriesCause(resp'[r].message, "extractor failed")
                       ELSE \E cause \in LoadCauses : CarriesCause(resp'[r].message, cause)
        /\ db' # db => \E r \in Reqs : loc'[r].result # loc[r].result
      ]_vars

\* one request failed in the extractor and stored nothing, another embedded,
\* inserted and returned
C25_Witness ==
    \E r, q \in Reqs :
        /\ pc[r] = "done" /\ resp[r].result = "error"
        /\ CarriesCause(resp[r].message, "extractor failed")
        /\ loc[r].vectorId = -1
        /\ loc[q].embeddings # <<>> /\ loc[q].result # -1
        /\ DataSize(svc[q].contractId) = 1

\* ------------------------------------------------------------ admission
\* the requests of user u whose createMemory() has stored a memory
CreatedBy(u) == {r \in Reqs : loc[r].user = u /\ loc[r].result # -1}

\* C26: under any interleaving of the insert requests of a user, the number of
\* memories created for the user is at most the quota limit minus the usage
\* the subscription started with, and quotaUsed never exceeds quotaLimit.
C26_QuotaNeverOvershot ==
    /\ Cardinality(CreatedBy("u1")) <= QuotaLimit - InitialQuotaUsed
    /\ \A u \in Users :
            subscriptions[u].exists =>
                subscriptions[u].quotaUsed <= subscriptions[u].quotaLimit

\* the requests that end with an error response in this step
Failing == {r \in Reqs : pc[r] # "done" /\ pc'[r] = "done" /\ resp'[r].status # 201}

\* C27: quotaUsed changes only in the step in which a request whose
\* createMemory() has stored a memory writes its increment, and only for that
\* request's user.  A request that fails (rejected by authentication, by the
\* gate or by body validation, without memory service, or with a failing
\* createMemory) ends with a status of 400 or above, and neither that step nor
\* any earlier step of the request has changed quotaUsed.
C27_QuotaOnlyAfterCreation ==
    [][ /\ subscriptions' # subscriptions =>
            \E r \in Reqs :
                /\ pc[r] = "quota_put" /\ pc'[r] = "done"
                /\ loc[r].result # -1
                /\ GetVector(svc[r].contractId, loc[r].result).found
                /\ resp'[r].status = 201
                /\ \A u \in Users \ {loc[r].user} : subscriptions'[u] = subscriptions[u]
        /\ \A r \in Failing :
                /\ resp'[r].status >= 400
                /\ resp'[r].result = "error"
                /\ subscriptions' = subscriptions
                /\ ~loc'[r].quotaUpdated
                /\ pc[r] \notin {"quota_sub", "quota_get", "quota_put"}
      ]_vars

\* a request whose insert failed was answered 500 and the usage stands where
\* the one request that created a memory has put it
C27_Witness ==
    \E r, q \in Reqs :
        /\ pc[r] = "done" /\ resp[r].status = 500
        /\ resp[r].message = CreateMemoryError(InsertVectorError("insert failed"))
        /\ loc[r].user = "u1" /\ loc[q].user = "u1"
        /\ loc[q].quotaUpdated
        /\ subscriptions["u1"].quotaUsed = InitialQuotaUsed + 1

\* ------------------------------------------------------------ deployments
\* the callers of deployNewContract()
Deployers == {p \in Procs : op[p] = "deploy"}

\* C15: with a wallet balance of zero or less, deployNewContract fails before
\* it provisions anything: no caller gets as far as EizenDbVector.deploy() or
\* warp.deploy(), in production and in development alike; a caller whose
\* balance was read fails with the insufficient-balance message of its mode,
\* and the two modes have different messages.
C15_ZeroBalanceFailsFast ==
    /\ InsufficientBalanceMessage("production") # InsufficientBalanceMessage("development")
    /\ walletBalance <= 0 =>
        /\ deployed = <<>>
        /\ \A p \in Deployers :
            /\ pc[p] \notin {"dep_deploy", "dep_balance2"}
            /\ pc[p] = "done" =>
                /\ resp[p].result = "error"
                /\ resp[p].message \in
                        {"config", "Failed to deploy contract: address",
                         "Failed to deploy contract: balance",
                         InsufficientBalanceMessage(nodeEnv)}

\* a production deployment has failed on an empty wallet
C15_Witness ==
    \E p \in Deployers :
        /\ walletBalance = 0
        /\ nodeEnv = "production"
        /\ pc[p] = "done"
        /\ resp[p].message = InsufficientBalanceMessage("production")

\* ------------------------------------------------------- tenant isolation
\* the callers whose step this is
Stepping == {p \in Procs : pc'[p] # pc[p]}

\* C16: a service is bound to one contract for its whole lifetime, and every
\* insert, search, get, count or cleanup issued through a service bound to one
\* contract leaves the other contract's vectors, hence its count, its records
\* and what a search of it can return, as they were.
C16_TenantIsolation ==
    [][/\ \A i \in {1, 2} : svc'[i].contractId = svc[i].contractId
       /\ \A p \in Stepping : \A c \in Contracts \ {ContractOf(p)} :
            /\ db'[c] = db[c]
            /\ DataSize(c)' = DataSize(c)
            /\ \A memoryId \in {0, 1} : GetVector(c, memoryId)' = GetVector(c, memoryId)
      ]_vars

\* both contracts were written to, each through its own service
C16_Witness ==
    /\ Len(db["c1"]) = 2
    /\ Len(db["c2"]) = 2
    /\ db["c1"][2] # db["c2"][2]
    /\ \E p \in Procs : op[p] = "cleanup"

\* ------------------------------------------------------------------ stats
\* C17: getStats never throws.  It returns the count of the store (0 for a
\* service without an index); when the count query or another internal step
\* fails it returns totalMemories 0 with the flags false.
C17_StatsNeverThrow ==
    [][\A p \in Procs :
        (op'[p] = "getStats" /\ pc'[p] = "done" /\ pc[p] # "done") =>
            /\ resp'[p].result = "ok"
            /\ \/ /\ svc[ServiceOf(p)].vectorDb
                  /\ loc'[p].stats.totalMemories = DataSize(ContractOf(p))
               \/ /\ ~svc[ServiceOf(p)].vectorDb /\ pc[p] = "idle"
                  /\ loc'[p].stats.totalMemories = 0
               \/ /\ loc'[p].stats.totalMemories = 0
                  /\ loc'[p].stats.isInitialized = FALSE
                  /\ loc'[p].stats.embeddingService = "unavailable"
      ]_vars

\* ------------------------------------------------------------- validation
\* the requests that have come past the quota gate in this step
Validated ==
    {r \in Reqs : pc[r] = "gate_sub" /\ pc'[r] # "gate_sub"
                    /\ resp'[r].status \notin {500, 403, 429}}

\* C18: content that is empty or longer than 10000 characters is rejected with
\* a validation error before any embedding is computed and before the store
\* changes; content of 1 to 10000 characters is accepted.
C18_ContentValidated ==
    [][/\ \A r \in Validated :
            LET length == loc[r].body.content.length IN
            IF length >= 1 /\ length <= 10000
            THEN pc'[r] = "svc_instances" /\ resp'[r] = resp[r]
            ELSE /\ pc'[r] = "done"
                 /\ resp'[r].status = 400
                 /\ resp'[r].result = "error"
                 /\ db' = db
                 /\ embVars' = embVars
       /\ \A r \in Reqs :
            LET length == loc'[r].body.content.length IN
            (op'[r] = "insert" /\ (length = 0 \/ length > 10000)) =>
                pc'[r] \in {"auth", "gate_sub", "done"}
      ]_vars

\* a content of 10001 characters was refused, one of 10000 is being stored
C18_Witness ==
    \E r, q \in Reqs :
        /\ loc[r].body.content.length = 10001
        /\ resp[r].status = 400
        /\ loc[q].body.content.length = 10000
        /\ pc[q] = "ins_insert"

\* --------------------------------------------------------------- batches
\* the batch calls that have returned or thrown
Batched == {p \in Procs : op[p] = "batchTextToEmbeddings" /\ pc[p] = "done"}

\* C19: embedBatch of n texts returns exactly n results, result i being the
\* i-th consecutive slice of the declared dimensionality of the response
\* buffer, or it raises an error, for every shape and buffer length.
C19_BatchShape ==
    \A p \in Batched :
        resp[p].result = "ok" =>
            LET n == loc[p].texts
                dims == loc[p].response.dims
                data == loc[p].response.data
                embeddingDim == dims[Len(dims)]
            IN /\ Len(loc[p].embeddings) = n
               /\ \A i \in 1..n :
                    /\ i * embeddingDim <= Len(data)
                    /\ loc[p].embeddings[i] =
                            [j \in 1..embeddingDim |-> data[(i - 1) * embeddingDim + j]]

\* the batch calls to which the extractor returned a tensor
Extracted ==
    {p \in Batched : resp[p].result = "ok" \/
        resp[p].message \in {"Invalid embedding dimension", "Batch dimension mismatch",
                             "Expected 1 text for 1D tensor", "Index out of bounds",
                             "Unexpected tensor dimensionality"}}

\* C22: for one text and a response of rank 1, dims = [d] with d > 0 and a
\* buffer of d elements, the batch returns one embedding of length d, which is
\* the length textToEmbeddings() gives for the same response; a response of
\* rank 2 with one row of d elements per text is accepted; a response of any
\* other rank, and one of rank 1 for more than one text, is an error.
C22_RankHandling ==
    \A p \in Extracted :
        LET n == loc[p].texts
            dims == loc[p].response.dims
            data == loc[p].response.data
            rank == Len(dims)
        IN /\ (n = 1 /\ rank = 1 /\ dims[1] > 0 /\ Len(data) = dims[1]) =>
                    /\ resp[p].result = "ok"
                    /\ Len(loc[p].embeddings) = 1
                    /\ Len(loc[p].embeddings[1]) = dims[1]
                    /\ Len(loc[p].embeddings[1]) = TextEmbedding(data).dimensions
           /\ (n >= 1 /\ rank = 2 /\ dims[1] = n /\ dims[2] > 0 /\ Len(data) = n * dims[2]) =>
                    /\ resp[p].result = "ok"
                    /\ Len(loc[p].embeddings) = n
           /\ rank \notin {1, 2} => resp[p].result = "error"
           /\ (rank = 1 /\ n > 1) => resp[p].result = "error"

\* ---------------------------------------------------------------- cleanup
\* the callers that take the cleanup() step of their service
CleaningUp == {p \in Procs : pc[p] = "idle" /\ op'[p] = "cleanup"}

\* C21: cleanup() returns without an error, leaves the service without index,
\* without SDK connection and not initialized, and leaves every contract's
\* data as it was: the count and the vectors that a service attached to the
\* same contract reads are those from before the cleanup.
C21_CleanupKeepsData ==
    [][ \A p \in CleaningUp :
            LET s == ServiceOf(p)
                c == svc[s].contractId IN
            /\ pc'[p] = "done"
            /\ resp'[p].result = "ok"
            /\ ~svc'[s].vectorDb /\ ~svc'[s].sdk /\ ~svc'[s].isInitialized
            /\ svc'[s].contractId = c
            /\ DataSize(c)' = DataSize(c)
            /\ \A id \in 0..DataSize(c) : GetVector(c, id)' = GetVector(c, id)
            /\ db' = db
      ]_vars

\* an attached service of a contract that holds two vectors was cleaned up
C21_Witness ==
    \E p \in Procs :
        /\ op[p] = "cleanup" /\ pc[p] = "done" /\ resp[p].result = "ok"
        /\ ~svc[ServiceOf(p)].vectorDb
        /\ DataSize(ContractOf(p)) = 2

\* ------------------------------------------------------ use after cleanup
\* the callers whose ensureInitialized() returns or throws in this step
Resuming == {p \in Procs : pc[p] = "st_init" /\ pc'[p] # "st_init"}

\* the callers whose insertVector() goes on from get_datasize() in this step
Counted == {p \in Procs : pc[p] = "st_index" /\ op[p] = "insertVector" /\ pc'[p] # "st_index"}

\* C28: an insert, search or get that is called on a service that is not
\* initialized (after cleanup()) runs initialize() again: when its
\* ensureInitialized() resumes, the service is attached to the same contract
\* and initialized, and the operation goes on to the index instead of failing
\* as not initialized.  And whenever an operation touches the index the
\* service is attached: no operation calls a method on a vectorDb that is
\* null.
C28_ReadyWhenTouched ==
    [][ /\ \A p \in Resuming :
            loc[p].initializing =>
                LET s == ServiceOf(p) IN
                /\ pc'[p] = "st_index"
                /\ svc'[s].isInitialized /\ svc'[s].vectorDb /\ svc'[s].sdk
                /\ svc'[s].contractId = svc[s].contractId
        /\ \A p \in Counted :
            /\ resp'[p].message # InsertVectorError(NullDereference)
            /\ pc'[p] = "st_insert" => svc[ServiceOf(p)].vectorDb
      ]_vars

\* ------------------------------------------------------ instance ownership
\* the requests for an instance that are answered in this step
InstanceAnswered ==
    {p \in Procs : op[p] \in {"getInstance", "deleteInstance"}
                    /\ pc[p] # "done" /\ pc'[p] = "done"}

\* C29: a GET or DELETE /instances/:id by an authenticated user who is not the
\* owner of the instance read is answered 403 and changes nothing, and a
\* non-owner is never answered 200; a document of the instances collection
\* changes only by being deleted by a DELETE request of the user named by its
\* userId; and a memory request is bound only to a contract of an instance
\* document whose userId is the requesting user.
C29_InstanceOwnership ==
    [][ /\ \A p \in InstanceAnswered :
            /\ (pc[p] = "inst_get" /\ loc'[p].instance.exists
                    /\ loc'[p].instance.userId # loc[p].user) =>
                    /\ resp'[p].status = 403
                    /\ instancesCollection' = instancesCollection
                    /\ db' = db
            /\ resp'[p].status = 200 => loc'[p].instance.userId = loc[p].user
        /\ \A i \in InstanceIds :
            instancesCollection'[i] # instancesCollection[i] =>
                /\ instancesCollection'[i] = NoInstance
                /\ \E p \in Procs :
                    /\ op[p] = "deleteInstance" /\ pc[p] = "inst_delete"
                    /\ loc[p].instanceId = i
                    /\ loc[p].user = instancesCollection[i].userId
        /\ \A r \in Reqs :
            svc'[r] # svc[r] =>
                \E i \in InstanceIds :
                    /\ instancesCollection[i].exists
                    /\ instancesCollection[i].userId = loc[r].user
                    /\ instancesCollection[i].contractId = svc'[r].contractId
      ]_vars

\* u1 was refused the deletion of u2's instance, u2 has deleted it, and a
\* memory request of u1 is bound to u1's contract
C29_Witness ==
    \E p, q \in Procs, r \in Reqs :
        /\ op[p] = "deleteInstance" /\ loc[p].user = "u1" /\ loc[p].instanceId = "i2"
        /\ resp[p].status = 403
        /\ op[q] = "deleteInstance" /\ loc[q].user = "u2" /\ resp[q].status = 200
        /\ ~instancesCollection["i2"].exists
        /\ op[r] = "insert" /\ loc[r].user = "u1" /\ svc[r].contractId = "c1"

\* ------------------------------------------------------------------ health
\* the detailed health checks that have been answered
HealthChecked == {p \in Procs : op[p] = "healthDetailed" /\ pc[p] = "done"}

\* C30: GET /health/detailed answers 503 whenever the Appwrite check has
\* failed (appwrite = 'unhealthy'), and 200 only when every component it
\* checked is 'healthy'.
C30_DetailedHealthStatus ==
    \A p \in HealthChecked :
        /\ loc[p].checks.appwrite = "unhealthy" => resp[p].status = 503
        /\ resp[p].status = 200 =>
                loc[p].checks.api = "healthy" /\ loc[p].checks.appwrite = "healthy"

====
